---- MODULE Spec2Model ----
(***************************************************************************)
(* Resource pool of pre-initialised provider instances                     *)
(* (src/src/core/pool/resource.go).                                        *)
(*                                                                         *)
(* The pool is a buffered channel of idle resources plus two counters      *)
(* guarded by a mutex.  Every critical section of the source (the code     *)
(* between mu.Lock and mu.Unlock) is one action here; the code that runs   *)
(* outside the mutex (the select in Get, the channel close and the drain   *)
(* loop in Close) is a separate action per step, so that every             *)
(* interleaving the Go scheduler can produce is a behaviour of the model.  *)
(*                                                                         *)
(* Further sections model the WebSocket server that leases from the pools  *)
(* (src/src/core/websocket_server.go), the process that runs it            *)
(* (src/src/main.go) and the callbacks of the task package                 *)
(* (src/src/task/callbacks.go).  Each component has its own variables and  *)
(* its own specification; the variables of the others stay as Init leaves  *)
(* them.                                                                   *)
(***************************************************************************)
EXTENDS Integers, Sequences, FiniteSets, TLC

\* ---------------------------------------------------------------- bounds
MaxPoolSize == 3        \* largest MaxSize a configuration may name
MaxRefill   == 1        \* largest RefillSize a configuration may name
NumClients  == 2        \* goroutines calling Get and Put

Clients == 1..NumClients

\* A value of Go's interface{}: nil (the zero value a receive from a closed
\* channel yields), or a resource made by factory.Create, named by a number.
Nil  == 0
None == -1              \* the caller holds nothing / the local is unset

VARIABLES
    phase,        \* "new": NewResourcePool not yet called; "open": it returned
                  \* a pool; "failed": an initial Create failed; "rejected":
                  \* the configuration was refused
    config,       \* PoolConfig: MinSize, MaxSize, RefillSize
    resources,    \* buffer of the channel p.resources (idle resources), FIFO
    resClosed,    \* close(p.resources) has run
    totalCount,   \* p.totalCount
    inUseCount,   \* p.inUseCount
    closed,       \* p.closed
    stopChan,     \* TRUE once close(p.stopChan) has run
    closePc,      \* progress of the body of closeOnce.Do in Close
    maintPc,      \* the maintain goroutine: "off", "running", "stopped"
    pc,           \* per client: position inside Get
    local,        \* per client: the local variable `resource` of Get
    held,         \* per client: what its last successful Get returned
    event,        \* the last step: the operation, what it returned, and the
                  \* calls of factory.Create and factory.Destroy it made
    snap,         \* the counters read before a Get that a Put follows
    srv,          \* the WebSocketServer: its http server, its task manager,
                  \* activeConnections and the progress of Stop
    conn,         \* per connection: position in handleWebSocket and in the
                  \* session goroutine, and the state of its session
    pm,           \* the PoolManager: ProviderSets leased, and whether closed
    proc,         \* the process: main, the two services of the errgroup,
                  \* their shutdown goroutines, the group context, the signal
    hs,           \* one request on its way through the authorization check
                  \* and the upgrade of handleWebSocket
    cbs,          \* the calls of OnComplete and OnError a worker has made,
                  \* each with the goroutine it started, and whether a
                  \* panic has ended the process
    vl,           \* the vision provider: the producer goroutine of
                  \* ResponseWithImage, its channel, and the consumer
    dev,          \* the devices table, the DeviceService with its HMAC key,
                  \* the request it handled last and the response it gave
    asr,          \* the gosherpa speech recogniser: its connection, the frames
                  \* given to AddAudio, and the call made last
    ota           \* firmware files and the last OTA response

vars == <<phase, config, resources, resClosed, totalCount, inUseCount, closed,
          stopChan, closePc, maintPc, pc, local, held, event, snap, srv, conn,
          pm, proc, hs, cbs, vl, dev, asr, ota>>

\* The variables of one ResourcePool.
onePool == <<phase, config, resources, resClosed, totalCount, inUseCount,
             closed, stopChan, closePc, maintPc, pc, local, held, event>>

\* The variables of the WebSocket server.
wsVars == <<srv, conn, pm>>

\* The variables no operation of the pool touches.
otherVars == <<snap, wsVars, proc, hs, cbs, vl, dev, asr, ota>>

\* The variables untouched by the pool and by the reading of its counters.
notPoolVars == <<wsVars, proc, hs, cbs, vl, dev, asr, ota>>

\* The variables no operation of the WebSocket server touches.
notWsVars == <<onePool, snap, proc, hs, cbs, vl, dev, asr, ota>>

\* The variables no step of the process touches.
notMainVars == <<onePool, snap, wsVars, hs, cbs, vl, dev, asr, ota>>

\* The variables no step of the handshake touches.
notHsVars == <<onePool, snap, wsVars, proc, cbs, vl, dev, asr, ota>>

\* The variables no step of a callback touches.
notCbVars == <<onePool, snap, wsVars, proc, hs, vl, dev, asr, ota>>

\* The variables no step of the vision provider touches.
notVlVars == <<onePool, snap, wsVars, proc, hs, cbs, dev, asr, ota>>

\* The variables no request to the device service touches.
notDevVars == <<onePool, snap, wsVars, proc, hs, cbs, vl, asr, ota>>

\* The variables no call of the speech recogniser touches.
notAsrVars == <<onePool, snap, wsVars, proc, hs, cbs, vl, dev, ota>>

\* Everything but the firmware directory and the OTA response.
notOtaVars == <<onePool, snap, wsVars, proc, hs, cbs, vl, dev, asr>>

poolVars == <<resources, resClosed, totalCount, inUseCount, closed, stopChan>>

\* ---------------------------------------------------------------- helpers
Range(s) == {s[i] : i \in 1..Len(s)}

\* Resources that exist: idle in the channel, in the hands of a Get that has
\* received but not yet returned, or leased to a caller.
Live(res) ==
    (Range(res) \cup {local[c] : c \in Clients} \cup {held[c] : c \in Clients})
        \ {Nil, None}

\* factory.Create returns a resource distinct from every existing one.
FreshId(live) == CHOOSE i \in 1..(Cardinality(live) + 1) :
                    /\ i \notin live
                    /\ \A j \in 1..(i - 1) : j \in live

Event(op, outcome, made, failed, destroyed) ==
    [op |-> op, outcome |-> outcome, made |-> made, failed |-> failed,
     destroyed |-> destroyed]

ValidConfig(cfg) == ~(cfg.MinSize < 0 \/ cfg.MaxSize < cfg.MinSize)

Configs == [MinSize : (-1)..MaxPoolSize, MaxSize : 0..MaxPoolSize,
            RefillSize : 0..MaxRefill]

\* No Get is being observed.
NoSnap == [stage |-> "none", who |-> 0, available |-> 0, in_use |-> 0,
           total |-> 0]

\* ---------------------------------------------------------------- server state
NumConns == 3           \* connections that may arrive
MaxSets  == 2           \* ProviderSets the PoolManager can lease at a time

Conns == 1..NumConns

\* A connection that has not arrived.
ConnNone == [pc |-> "none", open |-> FALSE, holds |-> FALSE, leases |-> 0,
             closes |-> 0, cancelled |-> FALSE, sent |-> {}]

\* The server before NewWebSocketServer.
SrvNew == [built |-> "new", taskMgr |-> "none", server |-> "nil",
           stop |-> "idle", visit |-> {}, active |-> {}, inflight |-> {}]

PmNew == [leased |-> 0, closed |-> FALSE]

InitWS ==
    /\ srv = SrvNew
    /\ conn = [k \in Conns |-> ConnNone]
    /\ pm = PmNew

\* ---------------------------------------------------------------- process state
\* The services main starts in the errgroup.
Services == {"ws", "http"}

\* The process as main creates the errgroup.
ProcNew == [main |-> "starting", ctx |-> FALSE, sig |-> FALSE,
            svc |-> [s \in Services |-> "off"],
            stopper |-> [s \in Services |-> "off"],
            done |-> "empty"]

InitMain == proc = ProcNew

\* ---------------------------------------------------------------- handshake state
\* No request has arrived.
NoToken == [isValid |-> FALSE, err |-> TRUE, deviceID |-> ""]

\* The header value "": the request has no Authorization header.
NoHeader == [prefix |-> "", token |-> NoToken]

NoRequest == [enabled |-> FALSE, authorization |-> NoHeader, deviceId |-> ""]

HsNew == [pc |-> "none", req |-> NoRequest, log |-> "", status |-> 0]

InitHs == hs = HsNew

\* ---------------------------------------------------------------- callback state
\* The worker has called nothing yet.
CbsNew == [calls |-> << >>, crashed |-> FALSE]

InitCb == cbs = CbsNew

\* ---------------------------------------------------------------- provider state
\* The vision provider before ResponseWithImage is called.
InitVl ==
    vl = [pc |-> "idle", kind |-> "", isActive |-> TRUE, pending |-> << >>,
          done |-> FALSE, buf |-> << >>, closes |-> 0, cancelled |-> FALSE,
          consumer |-> "reading", n |-> 0, heard |-> << >>, out |-> << >>,
          failure |-> "none"]

\* ---------------------------------------------------------------- device state
\* The devices table and the DeviceService before NewDevice: no record, no
\* request handled.
NoDevRequest == [op |-> "none", serial |-> "", mac |-> "", client |-> "",
                 id |-> 0, challenge |-> "", hmac |-> <<"", "">>,
                 genOk |-> FALSE, fails |-> {}]

InitDev ==
    dev = [pc |-> "new", key |-> "", db |-> << >>, req |-> NoDevRequest,
           resp |-> [err |-> FALSE, token |-> "none", id |-> 0],
           passed |-> {}]

\* ---------------------------------------------------------------- recogniser state
\* The gosherpa provider after NewProvider: the connection to the
\* recogniser is open, nothing was written, no call was made.
InitAsr ==
    asr = [conn |-> "open", frames |-> << >>, finished |-> FALSE,
           last |-> [op |-> "none", ret |-> "", accepted |-> FALSE,
                     busy |-> FALSE]]

\* ---------------------------------------------------------------- firmware state
\* The ota_bin directory is empty and no OTA request was answered.  A
\* version is the sequence of the components between the dots of a file
\* name, each a string of decimal digits; << >> is the empty string.
InitOta ==
    ota = [bins |-> {}, posted |-> FALSE, sent |-> << >>, seen |-> {},
           version |-> << >>, url |-> << >>]

\* ---------------------------------------------------------------- Init
Init ==
    /\ snap = NoSnap
    /\ InitWS
    /\ InitMain
    /\ InitHs
    /\ InitCb
    /\ InitVl
    /\ InitDev
    /\ InitAsr
    /\ InitOta
    /\ phase = "new"
    /\ config \in Configs
    /\ resources = << >>
    /\ resClosed = FALSE
    /\ totalCount = 0
    /\ inUseCount = 0
    /\ closed = FALSE
    /\ stopChan = FALSE
    /\ closePc = "idle"
    /\ maintPc = "off"
    /\ pc = [c \in Clients |-> "idle"]
    /\ local = [c \in Clients |-> None]
    /\ held = [c \in Clients |-> None]
    /\ event = Event("none", "", 0, 0, {})

\* ---------------------------------------------------------------- NewResourcePool
\* The initial fill: MinSize calls of factory.Create, each sent to the channel.
InitialFill(n) == [i \in 1..n |-> i]

\* A NewResourcePool that fills the channel with one resource fewer than
\* MinSize.
NewResourcePoolOkShort ==
    /\ phase = "new"
    /\ ValidConfig(config)
    /\ phase' = "open"
    /\ resources' = InitialFill(IF config.MinSize > 0 THEN config.MinSize - 1
                                                     ELSE 0)
    /\ totalCount' = config.MinSize
    /\ maintPc' = "running"
    /\ event' = Event("new", "ok", config.MinSize, 0, {})
    /\ UNCHANGED <<config, resClosed, inUseCount, closed, stopChan, closePc,
                   pc, local, held>>

\* NewResourcePool with every Create succeeding.
NewResourcePoolOk ==
    /\ phase = "new"
    /\ ValidConfig(config)
    /\ phase' = "open"
    /\ resources' = InitialFill(config.MinSize)
    /\ totalCount' = config.MinSize
    /\ maintPc' = "running"
    /\ event' = Event("new", "ok", config.MinSize, 0, {})
    /\ UNCHANGED <<config, resClosed, inUseCount, closed, stopChan, closePc,
                   pc, local, held>>

\* A NewResourcePool that returns the error without calling pool.Close().
NewResourcePoolFailLeak ==
    /\ phase = "new"
    /\ ValidConfig(config)
    /\ \E k \in 0..(config.MinSize - 1) :
         /\ phase' = "failed"
         /\ resources' = InitialFill(k)
         /\ totalCount' = k
         /\ event' = Event("new", "failed", k, 1, {})
    /\ UNCHANGED <<config, resClosed, closed, stopChan, closePc, inUseCount,
                   maintPc, pc, local, held>>

\* NewResourcePool whose (k+1)-th Create fails: pool.Close() destroys the k
\* resources made so far, nil is returned and maintain is never started.
NewResourcePoolFail ==
    /\ phase = "new"
    /\ ValidConfig(config)
    /\ \E k \in 0..(config.MinSize - 1) :
         /\ phase' = "failed"
         /\ resources' = << >>
         /\ resClosed' = TRUE
         /\ totalCount' = k
         /\ closed' = TRUE
         /\ stopChan' = TRUE
         /\ closePc' = "done"
         /\ event' = Event("new", "failed", k, 1, Range(InitialFill(k)))
    /\ UNCHANGED <<config, inUseCount, maintPc, pc, local, held>>

\* NewResourcePool refusing the configuration.
NewResourcePoolReject ==
    /\ phase = "new"
    /\ ~ValidConfig(config)
    /\ phase' = "rejected"
    /\ event' = Event("new", "rejected", 0, 0, {})
    /\ UNCHANGED <<config, poolVars, closePc, maintPc, pc, local, held>>

\* Lines 40-42: NewResourcePool called with a nil factory, whatever the
\* configuration is.
NewResourcePoolNoFactory ==
    /\ phase = "new"
    /\ phase' = "rejected"
    /\ event' = Event("new", "nofactory", 0, 0, {})
    /\ UNCHANGED <<config, poolVars, closePc, maintPc, pc, local, held>>

\* ---------------------------------------------------------------- Get
\* Lines 74-79: the closed check under the read lock.
GetCheckClosed(c) ==
    /\ phase = "open"
    /\ pc[c] = "idle"
    /\ held[c] = None
    /\ IF closed
         THEN /\ pc' = pc
              /\ event' = Event("get", "closed", 0, 0, {})
         ELSE /\ pc' = [pc EXCEPT ![c] = "select"]
              /\ event' = Event("get_check", "", 0, 0, {})
    /\ UNCHANGED <<phase, config, poolVars, closePc, maintPc, local, held>>

\* A select whose receive leaves the resource in the buffer.
GetSelectPeek(c) ==
    /\ pc[c] = "select"
    /\ IF Len(resources) > 0
         THEN /\ local' = [local EXCEPT ![c] = Head(resources)]
              /\ pc' = [pc EXCEPT ![c] = "recv"]
              /\ event' = Event("get_select", "recv", 0, 0, {})
         ELSE IF resClosed
         THEN /\ local' = [local EXCEPT ![c] = Nil]
              /\ pc' = [pc EXCEPT ![c] = "recv"]
              /\ event' = Event("get_select", "recv", 0, 0, {})
         ELSE /\ pc' = [pc EXCEPT ![c] = "create"]
              /\ event' = Event("get_select", "default", 0, 0, {})
              /\ UNCHANGED local
    /\ UNCHANGED <<phase, config, resources, resClosed, totalCount, inUseCount,
                   closed, stopChan, closePc, maintPc, held>>

\* Lines 81-82, 87: the select.  A receive is ready when the buffer holds a
\* resource, or when the channel is closed (it then yields nil); otherwise
\* the default branch is taken.
GetSelect(c) ==
    /\ pc[c] = "select"
    /\ IF Len(resources) > 0
         THEN /\ local' = [local EXCEPT ![c] = Head(resources)]
              /\ resources' = Tail(resources)
              /\ pc' = [pc EXCEPT ![c] = "recv"]
              /\ event' = Event("get_select", "recv", 0, 0, {})
         ELSE IF resClosed
         THEN /\ local' = [local EXCEPT ![c] = Nil]
              /\ resources' = resources
              /\ pc' = [pc EXCEPT ![c] = "recv"]
              /\ event' = Event("get_select", "recv", 0, 0, {})
         ELSE /\ pc' = [pc EXCEPT ![c] = "create"]
              /\ event' = Event("get_select", "default", 0, 0, {})
              /\ UNCHANGED <<local, resources>>
    /\ UNCHANGED <<phase, config, resClosed, totalCount, inUseCount, closed,
                   stopChan, closePc, maintPc, held>>

\* The received resource returned without being counted.
GetReceivedNoCount(c) ==
    /\ pc[c] = "recv"
    /\ inUseCount' = inUseCount
    /\ held' = [held EXCEPT ![c] = local[c]]
    /\ local' = [local EXCEPT ![c] = None]
    /\ pc' = [pc EXCEPT ![c] = "idle"]
    /\ event' = Event("get", "ok", 0, 0, {})
    /\ UNCHANGED <<phase, config, resources, resClosed, totalCount, closed,
                   stopChan, closePc, maintPc>>

\* Lines 83-86: the received resource is counted and returned.
GetReceived(c) ==
    /\ pc[c] = "recv"
    /\ inUseCount' = inUseCount + 1
    /\ held' = [held EXCEPT ![c] = local[c]]
    /\ local' = [local EXCEPT ![c] = None]
    /\ pc' = [pc EXCEPT ![c] = "idle"]
    /\ event' = Event("get", "ok", 0, 0, {})
    /\ UNCHANGED <<phase, config, resources, resClosed, totalCount, closed,
                   stopChan, closePc, maintPc>>

\* The default branch with the capacity test off by one.
GetCreateOffByOne(c, createOk) ==
    /\ pc[c] = "create"
    /\ pc' = [pc EXCEPT ![c] = "idle"]
    /\ IF totalCount <= config.MaxSize
         THEN IF createOk
                THEN /\ totalCount' = totalCount + 1
                     /\ inUseCount' = inUseCount + 1
                     /\ held' = [held EXCEPT ![c] = FreshId(Live(resources))]
                     /\ event' = Event("get", "ok", 1, 0, {})
                ELSE /\ event' = Event("get", "create_failed", 0, 1, {})
                     /\ UNCHANGED <<totalCount, inUseCount, held>>
         ELSE /\ event' = Event("get", "exhausted", 0, 0, {})
              /\ UNCHANGED <<totalCount, inUseCount, held>>
    /\ UNCHANGED <<phase, config, resources, resClosed, closed, stopChan,
                   closePc, maintPc, local>>

\* The default branch counting the resource before factory.Create is called
\* and not taking the count back when it fails.
GetCreateNoRollback(c, createOk) ==
    /\ pc[c] = "create"
    /\ pc' = [pc EXCEPT ![c] = "idle"]
    /\ IF totalCount < config.MaxSize
         THEN IF createOk
                THEN /\ totalCount' = totalCount + 1
                     /\ inUseCount' = inUseCount + 1
                     /\ held' = [held EXCEPT ![c] = FreshId(Live(resources))]
                     /\ event' = Event("get", "ok", 1, 0, {})
                ELSE /\ totalCount' = totalCount + 1
                     /\ event' = Event("get", "create_failed", 0, 1, {})
                     /\ UNCHANGED <<inUseCount, held>>
         ELSE /\ event' = Event("get", "exhausted", 0, 0, {})
              /\ UNCHANGED <<totalCount, inUseCount, held>>
    /\ UNCHANGED <<phase, config, resources, resClosed, closed, stopChan,
                   closePc, maintPc, local>>

\* The default branch forgetting to count the new resource in totalCount.
GetCreateNoTotal(c, createOk) ==
    /\ pc[c] = "create"
    /\ pc' = [pc EXCEPT ![c] = "idle"]
    /\ IF totalCount < config.MaxSize
         THEN IF createOk
                THEN /\ inUseCount' = inUseCount + 1
                     /\ held' = [held EXCEPT ![c] = FreshId(Live(resources))]
                     /\ event' = Event("get", "ok", 1, 0, {})
                     /\ UNCHANGED totalCount
                ELSE /\ event' = Event("get", "create_failed", 0, 1, {})
                     /\ UNCHANGED <<totalCount, inUseCount, held>>
         ELSE /\ event' = Event("get", "exhausted", 0, 0, {})
              /\ UNCHANGED <<totalCount, inUseCount, held>>
    /\ UNCHANGED <<phase, config, resources, resClosed, closed, stopChan,
                   closePc, maintPc, local>>

\* Lines 89-102: the default branch, under the write lock.  createOk is the
\* outcome of factory.Create, should it be called.
GetCreate(c, createOk) ==
    /\ pc[c] = "create"
    /\ pc' = [pc EXCEPT ![c] = "idle"]
    /\ IF totalCount < config.MaxSize
         THEN IF createOk
                THEN /\ totalCount' = totalCount + 1
                     /\ inUseCount' = inUseCount + 1
                     /\ held' = [held EXCEPT ![c] = FreshId(Live(resources))]
                     /\ event' = Event("get", "ok", 1, 0, {})
                ELSE /\ event' = Event("get", "create_failed", 0, 1, {})
                     /\ UNCHANGED <<totalCount, inUseCount, held>>
         ELSE /\ event' = Event("get", "exhausted", 0, 0, {})
              /\ UNCHANGED <<totalCount, inUseCount, held>>
    /\ UNCHANGED <<phase, config, resources, resClosed, closed, stopChan,
                   closePc, maintPc, local>>

\* ---------------------------------------------------------------- Put
\* A Put that counts the resource as returned but drops it instead of
\* sending it to the channel.
PutLeak(c) ==
    /\ pc[c] = "idle"
    /\ held[c] # None
    /\ held' = [held EXCEPT ![c] = None]
    /\ IF held[c] = Nil
         THEN /\ event' = Event("put", "nil", 0, 0, {})
              /\ UNCHANGED <<resources, totalCount, inUseCount>>
         ELSE IF closed
         THEN /\ event' = Event("put", "destroyed", 0, 0, {held[c]})
              /\ UNCHANGED <<resources, totalCount, inUseCount>>
         ELSE /\ inUseCount' = inUseCount - 1
              /\ event' = Event("put", "pooled", 0, 0, {})
              /\ UNCHANGED <<resources, totalCount>>
    /\ UNCHANGED <<phase, config, resClosed, closed, stopChan, closePc,
                   maintPc, pc, local>>

\* A Put that destroys every returned resource and shrinks the pool.
PutShrink(c) ==
    /\ pc[c] = "idle"
    /\ held[c] # None
    /\ held' = [held EXCEPT ![c] = None]
    /\ IF held[c] = Nil
         THEN /\ event' = Event("put", "nil", 0, 0, {})
              /\ UNCHANGED <<resources, totalCount, inUseCount>>
         ELSE IF closed
         THEN /\ event' = Event("put", "destroyed", 0, 0, {held[c]})
              /\ UNCHANGED <<resources, totalCount, inUseCount>>
         ELSE /\ inUseCount' = inUseCount - 1
              /\ totalCount' = totalCount - 1
              /\ event' = Event("put", "destroyed", 0, 0, {held[c]})
              /\ UNCHANGED resources
    /\ UNCHANGED <<phase, config, resClosed, closed, stopChan, closePc,
                   maintPc, pc, local>>

\* A Put without the closed test of lines 115-118.
PutUnchecked(c) ==
    /\ pc[c] = "idle"
    /\ held[c] # None
    /\ held' = [held EXCEPT ![c] = None]
    /\ IF held[c] = Nil
         THEN /\ event' = Event("put", "nil", 0, 0, {})
              /\ UNCHANGED <<resources, totalCount, inUseCount>>
         ELSE /\ inUseCount' = inUseCount - 1
              /\ IF Len(resources) < config.MaxSize
                   THEN /\ resources' = Append(resources, held[c])
                        /\ totalCount' = totalCount
                        /\ event' = Event("put", "pooled", 0, 0, {})
                   ELSE /\ resources' = resources
                        /\ totalCount' = totalCount - 1
                        /\ event' = Event("put", "destroyed", 0, 0, {held[c]})
    /\ UNCHANGED <<phase, config, resClosed, closed, stopChan, closePc,
                   maintPc, pc, local>>

\* Lines 107-130, all under the write lock.  The caller returns what its Get
\* gave it.
Put(c) ==
    /\ pc[c] = "idle"
    /\ held[c] # None
    /\ held' = [held EXCEPT ![c] = None]
    /\ IF held[c] = Nil
         THEN /\ event' = Event("put", "nil", 0, 0, {})
              /\ UNCHANGED <<resources, totalCount, inUseCount>>
         ELSE IF closed
         THEN /\ event' = Event("put", "destroyed", 0, 0, {held[c]})
              /\ UNCHANGED <<resources, totalCount, inUseCount>>
         ELSE /\ inUseCount' = inUseCount - 1
              /\ IF Len(resources) < config.MaxSize
                   THEN /\ resources' = Append(resources, held[c])
                        /\ totalCount' = totalCount
                        /\ event' = Event("put", "pooled", 0, 0, {})
                   ELSE /\ resources' = resources
                        /\ totalCount' = totalCount - 1
                        /\ event' = Event("put", "destroyed", 0, 0, {held[c]})
    /\ UNCHANGED <<phase, config, resClosed, closed, stopChan, closePc,
                   maintPc, pc, local>>

\* ---------------------------------------------------------------- Close
\* Lines 163-166: the first critical section of the body of closeOnce.Do.
CloseMark ==
    /\ phase = "open"
    /\ closePc = "idle"
    /\ closed' = TRUE
    /\ stopChan' = TRUE
    /\ closePc' = "marked"
    /\ event' = Event("close_mark", "", 0, 0, {})
    /\ UNCHANGED <<phase, config, resources, resClosed, totalCount, inUseCount,
                   maintPc, pc, local, held>>

\* Line 169: close(p.resources), outside the mutex.
CloseChan ==
    /\ closePc = "marked"
    /\ resClosed' = TRUE
    /\ closePc' = "draining"
    /\ event' = Event("close_chan", "", 0, 0, {})
    /\ UNCHANGED <<phase, config, resources, totalCount, inUseCount, closed,
                   stopChan, maintPc, pc, local, held>>

\* Lines 170-174: one iteration of the drain loop: a resource is received
\* and destroyed.
CloseDrain ==
    /\ closePc = "draining"
    /\ Len(resources) > 0
    /\ resources' = Tail(resources)
    /\ event' = Event("close_drain", "", 0, 0, {Head(resources)})
    /\ UNCHANGED <<phase, config, resClosed, totalCount, inUseCount, closed,
                   stopChan, closePc, maintPc, pc, local, held>>

\* Line 170: the range loop ends on the closed, empty channel.
CloseDone ==
    /\ closePc = "draining"
    /\ Len(resources) = 0
    /\ closePc' = "done"
    /\ event' = Event("close_done", "", 0, 0, {})
    /\ UNCHANGED <<phase, config, poolVars, maintPc, pc, local, held>>

\* ---------------------------------------------------------------- maintain
\* Lines 209-223: the loop of refillPool from iteration i on.  outcomes[i+1]
\* is the outcome of the factory.Create of iteration i; st carries the
\* channel buffer, totalCount and the calls made so far.
RECURSIVE RefillLoop(_, _, _, _)
RefillLoop(i, needed, outcomes, st) ==
    IF i < needed /\ st.total < config.MaxSize
      THEN IF ~outcomes[i + 1]
             THEN RefillLoop(i + 1, needed, outcomes,
                             [st EXCEPT !.failed = @ + 1])
             ELSE IF Len(st.res) < config.MaxSize
             THEN RefillLoop(i + 1, needed, outcomes,
                             [st EXCEPT !.res = Append(@, FreshId(Live(st.res))),
                                        !.total = @ + 1,
                                        !.made = @ + 1])
             ELSE RefillLoop(i + 1, needed, outcomes,
                             [st EXCEPT !.made = @ + 1,
                                        !.destroyed =
                                            @ \cup {FreshId(Live(st.res) \cup @)}])
      ELSE st

\* The number a tick tries to add, without the RefillSize cap.
NeededUncapped ==
    IF Len(resources) < config.MinSize
      THEN config.MinSize - Len(resources)
      ELSE 0

\* Lines 203-207: how many resources a tick tries to add.
Needed ==
    IF Len(resources) < config.MinSize
      THEN IF config.MinSize - Len(resources) > config.RefillSize
             THEN config.RefillSize
             ELSE config.MinSize - Len(resources)
      ELSE 0

\* Lines 194-225: refillPool, all under the write lock.
RefillResult(outcomes) ==
    IF closed
      THEN [res |-> resources, total |-> totalCount, made |-> 0, failed |-> 0,
            destroyed |-> {}]
      ELSE RefillLoop(0, Needed, outcomes,
                      [res |-> resources, total |-> totalCount, made |-> 0,
                       failed |-> 0, destroyed |-> {}])

\* Lines 187-188: a tick of the maintenance loop.
RefillPool ==
    /\ maintPc = "running"
    /\ \E outcomes \in [1..Needed -> BOOLEAN] :
         LET r == RefillResult(outcomes) IN
           /\ resources' = r.res
           /\ totalCount' = r.total
           /\ event' = Event("refill", "", r.made, r.failed, r.destroyed)
    /\ UNCHANGED <<phase, config, resClosed, inUseCount, closed, stopChan,
                   closePc, maintPc, pc, local, held>>

\* Lines 185-186: the maintenance loop sees the stop signal and returns.
MaintainStop ==
    /\ maintPc = "running"
    /\ stopChan
    /\ maintPc' = "stopped"
    /\ event' = Event("maintain_stop", "", 0, 0, {})
    /\ UNCHANGED <<phase, config, poolVars, closePc, pc, local, held>>

\* ---------------------------------------------------------------- specification
Next ==
    \/ NewResourcePoolOk /\ UNCHANGED otherVars
    \/ NewResourcePoolFail /\ UNCHANGED otherVars
    \/ NewResourcePoolReject /\ UNCHANGED otherVars
    \/ NewResourcePoolNoFactory /\ UNCHANGED otherVars
    \/ \E c \in Clients : GetCheckClosed(c) /\ UNCHANGED otherVars
    \/ \E c \in Clients : GetSelect(c) /\ UNCHANGED otherVars
    \/ \E c \in Clients : GetReceived(c) /\ UNCHANGED otherVars
    \/ \E c \in Clients : \E createOk \in BOOLEAN : GetCreate(c, createOk) /\ UNCHANGED otherVars
    \/ \E c \in Clients : Put(c) /\ UNCHANGED otherVars
    \/ CloseMark /\ UNCHANGED otherVars
    \/ CloseChan /\ UNCHANGED otherVars
    \/ CloseDrain /\ UNCHANGED otherVars
    \/ CloseDone /\ UNCHANGED otherVars
    \/ RefillPool /\ UNCHANGED otherVars
    \/ MaintainStop /\ UNCHANGED otherVars

Spec == Init /\ [][Next]_vars

\* The ticker fires again and again while the maintenance loop runs.
FairSpec == Spec /\ WF_vars(RefillPool /\ UNCHANGED otherVars)

\* ---------------------------------------------------------------- observers
\* GetDetailedStats, lines 147-158: the counters a caller can read.
Available == Len(resources)

IsResource(x) == x \notin {Nil, None}

\* Callers that hold a resource a Get returned to them.
Lessees(r) == {c \in Clients : held[c] = r}

NumLeased == Cardinality({c \in Clients : IsResource(held[c])})

\* Positions of r in the idle buffer.
IdleSlots(r) == {i \in 1..Len(resources) : resources[i] = r}

\* Resources a Get has received from the channel and not yet returned.
Receivers(r) == {c \in Clients : local[c] = r}

\* ---------------------------------------------------------------- C1
\* C1: for a pool, in every reachable state, idle + inUseCount = totalCount
\* and totalCount <= MaxSize.
C1_CountersBalance ==
    phase = "open" =>
        /\ Available + inUseCount = totalCount
        /\ totalCount <= config.MaxSize

\* ---------------------------------------------------------------- C2
\* C2: a resource is held by at most one lessee at a time: it is never in
\* the hands of two callers, never both idle and leased, and never twice in
\* the idle buffer.
C2_ExclusiveLease ==
    \A r \in Live(resources) :
        Cardinality(Lessees(r)) + Cardinality(Receivers(r))
            + Cardinality(IdleSlots(r)) = 1

\* Two callers hold a resource each, the last Get having taken its resource
\* from the idle buffer, while a third resource is idle.
C2_Witness ==
    /\ NumLeased = 2
    /\ event.op = "get"
    /\ event.outcome = "ok"
    /\ event.made = 0
    /\ Available > 0

\* ---------------------------------------------------------------- steps
\* The step completes a Get of caller c that took the default branch.
CreateReturn(c) == pc[c] = "create" /\ pc'[c] = "idle"

\* The step completes a Get of caller c that received from the channel.
ReceiveReturn(c) == pc[c] = "recv" /\ pc'[c] = "idle"

\* The step is the select of a Get of caller c.
SelectStep(c) == pc[c] = "select" /\ pc'[c] # "select"

\* The step is a Put by caller c of the resource it was leased.
PutStep(c) == IsResource(held[c]) /\ held'[c] = None

\* The step hands something to caller c as the result of a successful Get.
GetSucceeds(c) == held[c] = None /\ held'[c] # None

\* ---------------------------------------------------------------- C3
\* C3: Get takes an idle resource when the select finds one (in_use + 1,
\* total unchanged); the default branch is reached only with an empty
\* buffer, and there, when total < MaxSize and factory.Create succeeds,
\* exactly one new resource is made and leased (total + 1, in_use + 1),
\* and when total >= MaxSize the Get fails as exhausted and makes nothing.
C3_GetBranches ==
    [][\A c \in Clients :
        /\ (SelectStep(c) /\ Len(resources) > 0) =>
              /\ pc'[c] = "recv"
              /\ local'[c] = Head(resources)
              /\ resources' = Tail(resources)
              /\ UNCHANGED <<totalCount, inUseCount>>
        /\ (SelectStep(c) /\ pc'[c] = "create") => Len(resources) = 0
        /\ ReceiveReturn(c) =>
              /\ held'[c] = local[c]
              /\ inUseCount' = inUseCount + 1
              /\ event'.outcome = "ok"
              /\ event'.made = 0
              /\ UNCHANGED <<totalCount, resources>>
        /\ (CreateReturn(c) /\ totalCount < config.MaxSize
                /\ event'.failed = 0) =>
              /\ event'.outcome = "ok"
              /\ event'.made = 1
              /\ IsResource(held'[c])
              /\ held'[c] \notin Live(resources)
              /\ totalCount' = totalCount + 1
              /\ inUseCount' = inUseCount + 1
              /\ UNCHANGED resources
        /\ (CreateReturn(c) /\ totalCount >= config.MaxSize) =>
              /\ event'.outcome = "exhausted"
              /\ event'.made = 0
              /\ event'.failed = 0
              /\ held'[c] = None
              /\ UNCHANGED <<totalCount, inUseCount, resources>>
      ]_vars

\* A Get on an open pool has just made and leased a new resource because
\* the only other one is leased.
C3_Witness ==
    /\ ~closed
    /\ event.op = "get"
    /\ event.outcome = "ok"
    /\ event.made = 1
    /\ NumLeased = 2
    /\ totalCount = 2

\* ---------------------------------------------------------------- C4
\* C4: Put of a leased resource always decrements in_use; then the resource
\* is destroyed if the pool is closed, else placed in the idle buffer with
\* total unchanged if the buffer has space, else destroyed with total
\* decremented.
C4_PutEffect ==
    [][\A c \in Clients : PutStep(c) =>
        /\ inUseCount' = inUseCount - 1
        /\ IF closed
             THEN /\ held[c] \in event'.destroyed
                  /\ UNCHANGED <<resources, totalCount>>
             ELSE IF Len(resources) < config.MaxSize
             THEN /\ resources' = Append(resources, held[c])
                  /\ event'.destroyed = {}
                  /\ UNCHANGED totalCount
             ELSE /\ held[c] \in event'.destroyed
                  /\ totalCount' = totalCount - 1
                  /\ UNCHANGED resources
      ]_vars

\* ---------------------------------------------------------------- C5
\* C5: once Close has set the pool closed, no Get succeeds, and every
\* resource given to Put is destroyed and never placed in the idle buffer.
C5_ClosedPoolRefuses ==
    [][closed =>
        \A c \in Clients :
            /\ ~GetSucceeds(c)
            /\ PutStep(c) =>
                  /\ held[c] \in event'.destroyed
                  /\ held[c] \notin Range(resources')
      ]_vars

\* ---------------------------------------------------------------- C6
\* C6: a failing factory.Create changes nothing: a Get whose Create fails
\* leaves totalCount, inUseCount and the idle buffer as they were and
\* returns an error and no resource; a refill tick adds to totalCount and to
\* the idle buffer exactly the resources whose Create succeeded, and nothing
\* when every Create failed.
C6_CreateFailureNoEffect ==
    [][/\ \A c \in Clients :
            (CreateReturn(c) /\ event'.failed > 0) =>
                /\ event'.outcome = "create_failed"
                /\ event'.made = 0
                /\ held'[c] = None
                /\ UNCHANGED <<totalCount, inUseCount, resources>>
       /\ event'.op = "refill" =>
            /\ inUseCount' = inUseCount
            /\ totalCount' =
                 totalCount + event'.made - Cardinality(event'.destroyed)
            /\ Len(resources') =
                 Len(resources) + event'.made - Cardinality(event'.destroyed)
            /\ event'.made = 0 => UNCHANGED <<totalCount, resources>>
      ]_vars

\* A Get whose factory.Create failed has just returned, with a resource
\* leased to another caller.
C6_Witness ==
    /\ event.op = "get"
    /\ event.outcome = "create_failed"
    /\ event.failed = 1
    /\ NumLeased = 1
    /\ totalCount = 1

\* ---------------------------------------------------------------- C7
\* Resources out of the idle buffer: leased, or received by a Get that has
\* not returned yet.
Taken == Cardinality({c \in Clients : IsResource(held[c]) \/ IsResource(local[c])})

\* C7: on an open pool with MaxSize = N, a Get that completes while N
\* resources are leased fails as exhausted and changes no counter; a Put
\* places the resource in the idle buffer, a Get whose select finds the
\* buffer non-empty succeeds, and whenever fewer than N resources are out,
\* either one is idle or total < N, so that the next Get can succeed.
C7_ExhaustionAndRecovery ==
    [][/\ \A c \in Clients :
            /\ (pc[c] # "idle" /\ pc'[c] = "idle" /\ ~closed
                    /\ NumLeased = config.MaxSize) =>
                  /\ event'.outcome = "exhausted"
                  /\ held'[c] = None
                  /\ UNCHANGED <<totalCount, inUseCount, resources>>
            /\ (PutStep(c) /\ ~closed) => held[c] \in Range(resources')
            /\ (SelectStep(c) /\ Len(resources) > 0) =>
                  /\ pc'[c] = "recv"
                  /\ IsResource(local'[c])
            /\ (ReceiveReturn(c) /\ IsResource(local[c])) =>
                  /\ event'.outcome = "ok"
                  /\ held'[c] = local[c]
       /\ (phase' = "open" /\ ~closed' /\ Taken' < config.MaxSize) =>
            (Len(resources') > 0 \/ totalCount' < config.MaxSize)
      ]_vars

\* Pool {min=0, max=1}: one caller holds the only resource and the Get of
\* the other has just failed as exhausted.
C7_Witness ==
    /\ config.MinSize = 0
    /\ config.MaxSize = 1
    /\ ~closed
    /\ NumLeased = 1
    /\ event.op = "get"
    /\ event.outcome = "exhausted"

\* ---------------------------------------------------------------- C8
\* C8: with the maintenance loop scheduled fairly, the totalCount of a pool
\* is eventually, and from then on always, at least MinSize.
C8_TotalReachesMin ==
    <>[](phase = "open" => totalCount >= config.MinSize)

\* A maintenance tick on an open pool has just added a resource, and
\* totalCount is at least MinSize.
C8_Witness ==
    /\ phase = "open"
    /\ ~closed
    /\ config.MinSize >= 1
    /\ event.op = "refill"
    /\ event.made = 1
    /\ totalCount >= config.MinSize

\* ---------------------------------------------------------------- C9
\* The step is a maintenance tick.
RefillStep == event'.op = "refill"

\* C9: a maintenance tick creates instances only while totalCount is below
\* MinSize, at most RefillSize of them, never raises totalCount above
\* MaxSize, and creates nothing on a closed pool.
C9_RefillOnlyBelowMinTotal ==
    [][RefillStep =>
        /\ event'.made > 0 => totalCount < config.MinSize
        /\ event'.made <= config.RefillSize
        /\ totalCount' <= config.MaxSize
        /\ closed => (event'.made = 0 /\ UNCHANGED <<totalCount, resources>>)
      ]_vars

\* C9 as amended: a maintenance tick creates instances only while the number
\* of idle resources is below MinSize (totalCount may already be MinSize or
\* more); it calls factory.Create at most RefillSize times and at most
\* MinSize - idle times, never raises totalCount above MaxSize, and creates
\* nothing on a closed pool.
C9_RefillOnlyBelowMinIdle ==
    [][RefillStep =>
        /\ event'.made + event'.failed > 0 => Len(resources) < config.MinSize
        /\ event'.made + event'.failed <= config.RefillSize
        /\ event'.made + event'.failed <= config.MinSize - Len(resources)
              \/ event'.made + event'.failed = 0
        /\ totalCount' = totalCount + event'.made
        /\ totalCount' <= config.MaxSize
        /\ closed => (event'.made + event'.failed = 0
                        /\ UNCHANGED <<totalCount, resources>>)
      ]_vars

\* A tick has just added a resource to a pool whose totalCount was already
\* MinSize: totalCount now exceeds MinSize.
C9_Witness ==
    /\ event.op = "refill"
    /\ event.made = 1
    /\ config.MinSize >= 1
    /\ totalCount = config.MinSize + 1

\* ---------------------------------------------------------------- C10
\* No load: the pool is open, no Get is in progress, every leased resource
\* has been returned and in_use is 0.
Quiescent ==
    /\ phase = "open"
    /\ ~closed
    /\ \A c \in Clients : pc[c] = "idle" /\ held[c] = None
    /\ inUseCount = 0

\* C10: whenever the pool is quiescent, totalCount equals MinSize.
C10_QuiescentSizeIsMin ==
    Quiescent => totalCount = config.MinSize

\* C10 as amended: whenever the pool is quiescent, totalCount is at least
\* MinSize and at most MaxSize, and every resource counted is idle; the pool
\* does not shrink back to MinSize.
C10_QuiescentSizeInBounds ==
    Quiescent =>
        /\ totalCount >= config.MinSize
        /\ totalCount <= config.MaxSize
        /\ Available = totalCount

\* After load, every resource has been returned by Put and the pool is
\* quiescent with more than MinSize resources.
C10_Witness ==
    /\ Quiescent
    /\ event.op = "put"
    /\ totalCount > config.MinSize

\* ---------------------------------------------------------------- round trip
\* A caller that runs Get and then Put with nothing else in between,
\* observed through GetDetailedStats before the Get and after the Put.
\* No other operation is under way when the Get starts.
RoundTripReady ==
    /\ phase = "open"
    /\ ~closed
    /\ closePc = "idle"
    /\ \A c \in Clients : pc[c] = "idle"

\* GetDetailedStats, lines 147-158, read as client c enters Get.
SnapBegin(c) ==
    snap' = IF RoundTripReady /\ held[c] = None
              THEN [stage |-> "open", who |-> c, available |-> Available,
                    in_use |-> inUseCount, total |-> totalCount]
              ELSE NoSnap

\* A later step of the observed Get: the observation goes on while the Get
\* is still running or has returned a resource.
SnapGet(c) ==
    snap' = IF /\ snap.stage = "open"
               /\ snap.who = c
               /\ (pc'[c] # "idle" \/ IsResource(held'[c]))
              THEN snap
              ELSE NoSnap

\* The Put of the resource the observed Get returned ends the round trip.
SnapEnd(c) ==
    snap' = IF snap.stage = "open" /\ snap.who = c
              THEN [snap EXCEPT !.stage = "done"]
              ELSE NoSnap

\* Any other operation is concurrent with the round trip, which is then no
\* longer observed.
SnapDrop == snap' = NoSnap

NextRT ==
    \/ NewResourcePoolOk /\ SnapDrop /\ UNCHANGED notPoolVars
    \/ NewResourcePoolFail /\ SnapDrop /\ UNCHANGED notPoolVars
    \/ NewResourcePoolReject /\ SnapDrop /\ UNCHANGED notPoolVars
    \/ NewResourcePoolNoFactory /\ SnapDrop /\ UNCHANGED notPoolVars
    \/ \E c \in Clients : GetCheckClosed(c) /\ SnapBegin(c) /\ UNCHANGED notPoolVars
    \/ \E c \in Clients : GetSelect(c) /\ SnapGet(c) /\ UNCHANGED notPoolVars
    \/ \E c \in Clients : GetReceived(c) /\ SnapGet(c) /\ UNCHANGED notPoolVars
    \/ \E c \in Clients : \E createOk \in BOOLEAN : GetCreate(c, createOk) /\ SnapGet(c) /\ UNCHANGED notPoolVars
    \/ \E c \in Clients : Put(c) /\ SnapEnd(c) /\ UNCHANGED notPoolVars
    \/ CloseMark /\ SnapDrop /\ UNCHANGED notPoolVars
    \/ CloseChan /\ SnapDrop /\ UNCHANGED notPoolVars
    \/ CloseDrain /\ SnapDrop /\ UNCHANGED notPoolVars
    \/ CloseDone /\ SnapDrop /\ UNCHANGED notPoolVars
    \/ RefillPool /\ SnapDrop /\ UNCHANGED notPoolVars
    \/ MaintainStop /\ SnapDrop /\ UNCHANGED notPoolVars

SpecRT == Init /\ [][NextRT]_vars

\* C11: Put(Get()) with no other concurrent operation leaves available,
\* in_use and total as they were before the Get.
C11_RoundTripNoOp ==
    snap.stage = "done" =>
        /\ Available = snap.available
        /\ inUseCount = snap.in_use
        /\ totalCount = snap.total

\* C11 as amended: the round trip leaves in_use as it was; when the Get took
\* an idle resource, available and total are as they were too; when no
\* resource was idle and the Get created one, available and total are each
\* one more than before.
C11_RoundTripEffect ==
    snap.stage = "done" =>
        /\ inUseCount = snap.in_use
        /\ IF snap.available > 0
             THEN Available = snap.available /\ totalCount = snap.total
             ELSE Available = 1 /\ totalCount = snap.total + 1

\* A round trip whose Get created the resource has ended.
C11_Witness ==
    /\ snap.stage = "done"
    /\ snap.available = 0
    /\ totalCount = snap.total + 1

\* ---------------------------------------------------------------- WebSocket server
\* src/src/core/websocket_server.go.  Every connection is served by its own
\* goroutine (net/http), Stop runs in the goroutine that waits for the group
\* context, and activeConnections is a sync.Map: each operation on the map
\* and each call below is one step, and the steps of different goroutines
\* interleave freely.

\* PoolManager.GetProviderSet succeeds while the manager is open and a
\* ProviderSet is left to lease.
GetProviderSetOk == ~pm.closed /\ pm.leased < MaxSets

\* ConnectionContext.Close: the leased ProviderSet goes back to the pools,
\* the session scope is cancelled and the transport is closed.
CtxCloseConn(k) ==
    [conn EXCEPT ![k].closes = @ + 1, ![k].holds = FALSE,
                 ![k].cancelled = TRUE, ![k].open = FALSE]

CtxClosePm(k) ==
    IF conn[k].holds THEN [pm EXCEPT !.leased = @ - 1] ELSE pm

\* NewWebSocketServer, lines 37-58: the task manager is started (line 46),
\* then the pool manager is built; when that fails nil is returned.
NewWebSocketServer(poolOk) ==
    /\ srv.built = "new"
    /\ srv' = [srv EXCEPT !.taskMgr = "running",
                          !.built = IF poolOk THEN "ok" ELSE "failed"]
    /\ UNCHANGED <<conn, pm>>

\* Start, lines 61-76: ws.server is assigned.
StartAssign ==
    /\ srv.built = "ok"
    /\ srv.server = "nil"
    /\ srv' = [srv EXCEPT !.server = "assigned"]
    /\ UNCHANGED <<conn, pm>>

\* Start, lines 81-88: ListenAndServe binds the address and accepts, or
\* fails.  On a server that Stop has closed already it returns at once.
StartListen(bindOk) ==
    /\ srv.server = "assigned"
    /\ srv' = [srv EXCEPT !.server = IF bindOk THEN "listening"
                                               ELSE "bindfailed"]
    /\ UNCHANGED <<conn, pm>>

\* handleWebSocket, lines 159-172: a request arrives at the listening
\* server; verifyToken lets it pass; the upgrade succeeds or fails.
Upgrade(k, upgradeOk) ==
    /\ srv.server = "listening"
    /\ conn[k].pc = "none"
    /\ conn' = [conn EXCEPT ![k].pc = IF upgradeOk THEN "upgraded"
                                                   ELSE "failed",
                            ![k].open = upgradeOk]
    /\ UNCHANGED <<srv, pm>>

\* A handler that asks for a ProviderSet again after it got one.
LeaseRepeat(k) ==
    /\ conn[k].pc = "upgraded"
    /\ IF GetProviderSetOk
         THEN /\ pm' = [pm EXCEPT !.leased = @ + 1]
              /\ conn' = [conn EXCEPT ![k].holds = TRUE, ![k].leases = @ + 1]
         ELSE /\ pm' = pm
              /\ conn' = [conn EXCEPT ![k].pc = IF conn[k].holds
                                                  THEN "leased" ELSE "refused",
                                      ![k].open = conn[k].holds]
    /\ UNCHANGED srv

\* handleWebSocket, lines 174-182: the one call of GetProviderSet; when it
\* fails the error is logged and the connection closed.
Lease(k) ==
    /\ conn[k].pc = "upgraded"
    /\ IF GetProviderSetOk
         THEN /\ pm' = [pm EXCEPT !.leased = @ + 1]
              /\ conn' = [conn EXCEPT ![k].pc = "leased", ![k].holds = TRUE,
                                      ![k].leases = @ + 1]
         ELSE /\ pm' = pm
              /\ conn' = [conn EXCEPT ![k].pc = "refused",
                                      ![k].open = FALSE]
    /\ UNCHANGED srv

\* handleWebSocket, lines 184-202: the session scope, the handler and the
\* ConnectionContext are made, the context is stored in activeConnections
\* and the session goroutine is started.  A Range under way may or may not
\* come to see the new key.
Store(k, seen) ==
    /\ conn[k].pc = "leased"
    /\ conn' = [conn EXCEPT ![k].pc = "handling"]
    /\ srv' = [srv EXCEPT !.active = @ \cup {k},
                          !.visit = IF srv.stop = "range" /\ seen
                                      THEN @ \cup {k} ELSE @]
    /\ UNCHANGED pm

\* The client closes the transport.
ClientDisconnect(k) ==
    /\ conn[k].pc = "handling"
    /\ conn[k].open
    /\ conn' = [conn EXCEPT ![k].open = FALSE]
    /\ UNCHANGED <<srv, pm>>

\* Line 211: handler.Handle returns once the transport is closed or the
\* session scope is cancelled.
HandleReturn(k) ==
    /\ conn[k].pc = "handling"
    /\ ~conn[k].open \/ conn[k].cancelled
    /\ conn' = [conn EXCEPT ![k].pc = "returned"]
    /\ UNCHANGED <<srv, pm>>

\* Lines 203-206, the deferred cleanup: activeConnections.Delete.  A Range
\* under way may still hand the deleted key to its callback.
CleanupDelete(k, seen) ==
    /\ conn[k].pc = "returned"
    /\ conn' = [conn EXCEPT ![k].pc = "deleted"]
    /\ srv' = [srv EXCEPT !.active = @ \ {k},
                          !.visit = IF seen THEN @ ELSE @ \ {k}]
    /\ UNCHANGED pm

\* Lines 207-208, the deferred cleanup: connContext.Close.
CleanupClose(k) ==
    /\ conn[k].pc = "deleted"
    /\ conn' = [CtxCloseConn(k) EXCEPT ![k].pc = "done"]
    /\ pm' = CtxClosePm(k)
    /\ UNCHANGED srv

\* Stop, lines 127-132: nothing is done while ws.server is nil; otherwise
\* the Range over activeConnections begins.
StopBegin ==
    /\ srv.built = "ok"
    /\ srv.stop = "idle"
    /\ srv' = IF srv.server = "nil"
                THEN [srv EXCEPT !.stop = "noop"]
                ELSE [srv EXCEPT !.stop = "range", !.visit = srv.active]
    /\ UNCHANGED <<conn, pm>>

\* Stop, lines 132-143: the Range callback closes one ConnectionContext and
\* deletes its key.
StopVisit(k) ==
    /\ srv.stop = "range"
    /\ k \in srv.visit
    /\ conn' = CtxCloseConn(k)
    /\ pm' = CtxClosePm(k)
    /\ srv' = [srv EXCEPT !.active = @ \ {k}, !.visit = @ \ {k}]

\* Stop, line 143: the Range has handed over every key it saw.
StopRangeEnd ==
    /\ srv.stop = "range"
    /\ srv.visit = {}
    /\ srv' = [srv EXCEPT !.stop = "pools"]
    /\ UNCHANGED <<conn, pm>>

\* Stop, lines 146-148: poolManager.Close.
StopPools ==
    /\ srv.stop = "pools"
    /\ pm' = [pm EXCEPT !.closed = TRUE]
    /\ srv' = [srv EXCEPT !.stop = "server"]
    /\ UNCHANGED conn

\* Stop, lines 151-155: ws.server.Close stops the listener; connections
\* already upgraded are hijacked and stay open.
StopServer ==
    /\ srv.stop = "server"
    /\ srv' = [srv EXCEPT !.stop = "done", !.server = "closed"]
    /\ UNCHANGED <<conn, pm>>

NextWS ==
    \/ \E poolOk \in BOOLEAN : NewWebSocketServer(poolOk) /\ UNCHANGED notWsVars
    \/ StartAssign /\ UNCHANGED notWsVars
    \/ \E bindOk \in BOOLEAN : StartListen(bindOk) /\ UNCHANGED notWsVars
    \/ \E k \in Conns : \E upgradeOk \in BOOLEAN : Upgrade(k, upgradeOk) /\ UNCHANGED notWsVars
    \/ \E k \in Conns : Lease(k) /\ UNCHANGED notWsVars
    \/ \E k \in Conns : \E seen \in BOOLEAN : Store(k, seen) /\ UNCHANGED notWsVars
    \/ \E k \in Conns : ClientDisconnect(k) /\ UNCHANGED notWsVars
    \/ \E k \in Conns : HandleReturn(k) /\ UNCHANGED notWsVars
    \/ \E k \in Conns : \E seen \in BOOLEAN : CleanupDelete(k, seen) /\ UNCHANGED notWsVars
    \/ \E k \in Conns : CleanupClose(k) /\ UNCHANGED notWsVars
    \/ StopBegin /\ UNCHANGED notWsVars
    \/ \E k \in Conns : StopVisit(k) /\ UNCHANGED notWsVars
    \/ StopRangeEnd /\ UNCHANGED notWsVars
    \/ StopPools /\ UNCHANGED notWsVars
    \/ StopServer /\ UNCHANGED notWsVars

\* The pool variables stay as they are before NewResourcePool.
PoolUnused == config = [MinSize |-> 0, MaxSize |-> 0, RefillSize |-> 0]

InitPoolUnused == Init /\ PoolUnused

SpecWS == InitPoolUnused /\ [][NextWS]_vars

\* ---------------------------------------------------------------- sessions
\* C12: from upgrade to cleanup a connection obtains at most one ProviderSet
\* from GetProviderSet.
C12_OneLeasePerSession ==
    \A k \in Conns : conn[k].leases <= 1

\* A session that leased a ProviderSet has run to the end of its cleanup
\* while another session holds its own.
C12_Witness ==
    \E k, j \in Conns :
        /\ k # j
        /\ conn[k].pc = "done" /\ conn[k].leases = 1
        /\ conn[j].holds /\ conn[j].leases = 1

\* What the server does on its own is done eventually: a handler that can
\* take its next step takes it, and a Stop that has begun goes on.  Nothing
\* makes a client arrive or hang up.
FairSpecWS ==
    /\ SpecWS
    /\ \A k \in Conns :
          /\ WF_vars(Lease(k) /\ UNCHANGED notWsVars)
          /\ WF_vars((\E seen \in BOOLEAN : Store(k, seen)) /\ UNCHANGED notWsVars)
          /\ WF_vars(HandleReturn(k) /\ UNCHANGED notWsVars)
          /\ WF_vars((\E seen \in BOOLEAN : CleanupDelete(k, seen)) /\ UNCHANGED notWsVars)
          /\ WF_vars(CleanupClose(k) /\ UNCHANGED notWsVars)
          /\ WF_vars(StopVisit(k) /\ UNCHANGED notWsVars)
    /\ WF_vars(StopRangeEnd /\ UNCHANGED notWsVars)
    /\ WF_vars(StopPools /\ UNCHANGED notWsVars)
    /\ WF_vars(StopServer /\ UNCHANGED notWsVars)

\* The session of connection k is gone: its key is out of activeConnections
\* and its ConnectionContext has been closed, so that the ProviderSet is
\* back and the session scope cancelled.
Destroyed(k) ==
    /\ k \notin srv.active
    /\ conn[k].closes > 0
    /\ ~conn[k].holds
    /\ conn[k].cancelled

\* handler.Handle has returned for connection k.
Returned(k) == conn[k].pc \in {"returned", "deleted", "done"}

\* C13: a session for which GetProviderSet succeeded is destroyed eventually
\* once its handler.Handle has returned or Stop has completed.
C13_SessionEventuallyDestroyed ==
    \A k \in Conns :
        (conn[k].leases > 0 /\ (Returned(k) \/ srv.stop = "done"))
            ~> Destroyed(k)

\* ---------------------------------------------------------------- refusal
\* GetProviderSet fails for connection k because every ProviderSet is
\* leased, and handleWebSocket gives the connection up.
RefusedExhausted(k) ==
    /\ conn[k].pc = "upgraded"
    /\ ~pm.closed
    /\ pm.leased = MaxSets
    /\ conn'[k].pc = "refused"

\* C14: a connection refused because the pool is exhausted is sent an error
\* envelope of kind PoolExhausted before it is closed; it is not stored in
\* activeConnections, and no other session or lease changes.
C14_RefusalSendsError ==
    [][\A k \in Conns : RefusedExhausted(k) =>
          /\ "error:PoolExhausted" \in conn'[k].sent
          /\ ~conn'[k].open
          /\ k \notin srv'.active
          /\ srv'.active = srv.active
          /\ pm' = pm
          /\ \A j \in Conns \ {k} : conn'[j] = conn[j]]_vars

\* ---------------------------------------------------------------- shutdown
\* Stop has begun to close sessions, pools or the listener.
StopClosing == srv.stop \in {"range", "pools", "server", "done"}

\* A step of handleWebSocket that admits connection k: the upgrade, the
\* lease of a ProviderSet, or the entry in activeConnections.
Admitted(k) ==
    \/ conn[k].pc = "none" /\ conn'[k].pc = "upgraded"
    \/ conn'[k].leases > conn[k].leases
    \/ k \notin srv.active /\ k \in srv'.active

\* C15: once Stop has begun closing sessions or pools, handleWebSocket
\* admits no connection.
C15_StopRefusesNewConnections ==
    [][StopClosing => \A k \in Conns : ~Admitted(k)]_vars

\* The step of Stop that calls poolManager.Close.
PoolsCloseStep == srv.stop = "pools" /\ srv'.stop = "server"

\* C16: when poolManager.Close is called, no session holds a leased
\* ProviderSet.
C16_PoolsClosedAfterSessions ==
    [][PoolsCloseStep => \A k \in Conns : ~conn[k].holds]_vars

\* C17: after Stop has completed the task manager is stopped, and a
\* NewWebSocketServer that failed leaves no task manager running.
C17_TaskManagerStopped ==
    /\ srv.stop = "done" => srv.taskMgr = "stopped"
    /\ srv.built = "failed" => srv.taskMgr # "running"

\* ---------------------------------------------------------------- process
\* src/src/main.go: main starts the WebSocket service and the HTTP service
\* in an errgroup, then GracefulShutdown waits for a signal.

\* os.Exit was called or main returned.
Exited == proc.main \in {"exit_start", "exit_ok", "exit_err", "exit_forced"}

\* A g.Go function returned an error: the errgroup cancels the group context.
GroupCancel(err) == proc.ctx \/ err

\* StartWSServer, lines 68-100: when NewWebSocketServer fails main cancels
\* and exits (lines 257-261); otherwise the service function and its
\* shutdown goroutine are started.
StartWSServer(ok) ==
    /\ proc.main = "starting"
    /\ proc' = IF ok
                 THEN [proc EXCEPT !.main = "ws_started",
                                   !.svc["ws"] = "running",
                                   !.stopper["ws"] = "wait"]
                 ELSE [proc EXCEPT !.main = "exit_start", !.ctx = TRUE]

\* StartHttpServer, lines 102-179: when a service behind the router cannot
\* be set up main cancels and exits; otherwise the service function and its
\* shutdown goroutine are started and main enters GracefulShutdown.
StartHttpServer(ok) ==
    /\ proc.main = "ws_started"
    /\ proc' = IF ok
                 THEN [proc EXCEPT !.main = "wait_signal",
                                   !.svc["http"] = "running",
                                   !.stopper["http"] = "wait"]
                 ELSE [proc EXCEPT !.main = "exit_start", !.ctx = TRUE]

\* Lines 88-96 and 170-175: ListenAndServe fails (the address cannot be
\* bound).  The WebSocket function returns nil when the group context is
\* done already; the HTTP function returns the error in every case.
ServiceFail(s) ==
    /\ ~Exited
    /\ proc.svc[s] = "running"
    /\ proc.stopper[s] = "wait"
    /\ LET err == s = "http" \/ ~proc.ctx
       IN  proc' = [proc EXCEPT !.svc[s] = IF err THEN "err" ELSE "nil",
                                !.ctx = GroupCancel(err)]

\* Lines 78-86 and 155-168: the shutdown goroutine wakes on groupCtx.Done
\* and calls wsServer.Stop or httpServer.Shutdown.  Stop does nothing when
\* Start has not assigned ws.server yet (websocket_server.go:131).
StopperRun(s, effective) ==
    /\ ~Exited
    /\ proc.ctx
    /\ proc.stopper[s] = "wait"
    /\ proc' = [proc EXCEPT !.stopper[s] =
                    IF s = "ws" /\ proc.svc[s] = "running" /\ ~effective
                      THEN "noop" ELSE "done"]

\* ListenAndServe returns ErrServerClosed after the server was closed, and
\* the service function returns nil.
ServiceReturn(s) ==
    /\ ~Exited
    /\ proc.svc[s] = "running"
    /\ proc.stopper[s] = "done"
    /\ proc' = [proc EXCEPT !.svc[s] = "nil"]

\* A SIGINT or SIGTERM is delivered to sigChan (lines 183-184).
Signal ==
    /\ proc.main = "wait_signal"
    /\ ~proc.sig
    /\ proc' = [proc EXCEPT !.sig = TRUE]

\* GracefulShutdown, lines 188-198: the signal is received, cancel() is
\* called and the goroutine that waits for the group is started.
MainCancel ==
    /\ proc.main = "wait_signal"
    /\ proc.sig
    /\ proc' = [proc EXCEPT !.main = "select", !.ctx = TRUE]

\* Lines 196-198: g.Wait returns once every service function has returned,
\* with the first error any of them returned.
WaitDone ==
    /\ proc.main = "select"
    /\ proc.done = "empty"
    /\ \A s \in Services : proc.svc[s] \in {"nil", "err"}
    /\ proc' = [proc EXCEPT !.done =
                    IF \E s \in Services : proc.svc[s] = "err"
                      THEN "err" ELSE "nil"]

\* Lines 200-206: the select receives from done.
MainDone ==
    /\ proc.main = "select"
    /\ proc.done # "empty"
    /\ proc' = [proc EXCEPT !.main = IF proc.done = "err" THEN "exit_err"
                                                          ELSE "exit_ok"]

\* A select without the timer branch: main goes on waiting for done.
MainWaitsOn ==
    /\ proc.main = "select"
    /\ proc' = proc

\* Lines 207-210: the 15 s timer fires and os.Exit(1) is called.
MainTimeout ==
    /\ proc.main = "select"
    /\ proc' = [proc EXCEPT !.main = "exit_forced"]

NextMain ==
    \/ \E ok \in BOOLEAN : StartWSServer(ok) /\ UNCHANGED notMainVars
    \/ \E ok \in BOOLEAN : StartHttpServer(ok) /\ UNCHANGED notMainVars
    \/ \E s \in Services : ServiceFail(s) /\ UNCHANGED notMainVars
    \/ \E s \in Services : \E effective \in BOOLEAN : StopperRun(s, effective) /\ UNCHANGED notMainVars
    \/ \E s \in Services : ServiceReturn(s) /\ UNCHANGED notMainVars
    \/ Signal /\ UNCHANGED notMainVars
    \/ MainCancel /\ UNCHANGED notMainVars
    \/ WaitDone /\ UNCHANGED notMainVars
    \/ MainDone /\ UNCHANGED notMainVars
    \/ MainTimeout /\ UNCHANGED notMainVars

SpecMain == InitPoolUnused /\ [][NextMain]_vars

\* Goroutines that can run do run, and the timer fires when its time has
\* passed.  Nothing makes a signal arrive or a server fail.
FairSpecMain ==
    /\ SpecMain
    /\ WF_vars(MainCancel /\ UNCHANGED notMainVars)
    /\ WF_vars(WaitDone /\ UNCHANGED notMainVars)
    /\ WF_vars(MainDone /\ UNCHANGED notMainVars)
    /\ WF_vars(MainTimeout /\ UNCHANGED notMainVars)
    /\ \A s \in Services :
          /\ WF_vars((\E effective \in BOOLEAN : StopperRun(s, effective)) /\ UNCHANGED notMainVars)
          /\ WF_vars(ServiceReturn(s) /\ UNCHANGED notMainVars)

\* Every service function of the errgroup has returned.
AllReturned == \A s \in Services : proc.svc[s] \in {"nil", "err"}

\* C18: after a termination signal the process terminates.  The group
\* context is cancelled; the process exits after every service has returned,
\* or the shutdown deadline fires and it exits forcibly; it does not wait
\* for ever for a service that does not stop.
C18_TerminatesAfterSignal ==
    /\ [](proc.main \in {"select", "exit_ok", "exit_err", "exit_forced"}
            => proc.sig /\ proc.ctx)
    /\ [](proc.main \in {"exit_ok", "exit_err"} => AllReturned)
    /\ (proc.sig ~> Exited)

\* The signal came, the WebSocket service never stopped, and the process
\* exited on the deadline.
C18_Witness ==
    /\ proc.sig
    /\ proc.svc["ws"] = "running"
    /\ proc.stopper["ws"] = "noop"
    /\ proc.main = "exit_forced"

\* ---------------------------------------------------------------- authorization
\* handleWebSocket, lines 159-172, and verifyToken, lines 234-264.
\* A header value is a scheme prefix, possibly empty, followed by a token.
\* A token is what auth.VerifyToken returns for it: whether it is valid,
\* whether an error is returned, and the device id it carries.
DeviceIds == {"d1", "d2"}

Tokens == [isValid : BOOLEAN, err : BOOLEAN, deviceID : DeviceIds]

Prefixes == {"Bearer ", "Basic ", ""}

\* Authorization headers: absent, a bare token, or a prefix and a token.
AuthHeaders == {NoHeader} \cup [prefix : Prefixes, token : Tokens]

Requests == [enabled : BOOLEAN, authorization : AuthHeaders,
             deviceId : DeviceIds \cup {""}]

\* strings.HasPrefix(authHeader, "Bearer ")
HasBearerPrefix(h) == h.prefix = "Bearer "

\* strings.TrimPrefix(authHeader, "Bearer ")
TrimBearerPrefix(h) == h.token

\* verifyToken with the device id check enforced.
verifyTokenStrict(r) ==
    IF r.authorization = NoHeader
      THEN [ok |-> TRUE, log |-> "missing"]
    ELSE IF ~HasBearerPrefix(r.authorization)
      THEN [ok |-> TRUE, log |-> "format"]
    ELSE LET token == TrimBearerPrefix(r.authorization)
         IN  IF token.err \/ ~token.isValid
               THEN [ok |-> TRUE, log |-> "invalid"]
             ELSE IF r.deviceId # token.deviceID
               THEN [ok |-> FALSE, log |-> "mismatch"]
             ELSE [ok |-> TRUE, log |-> "verified"]

\* verifyToken, lines 234-264: what it returns and which message it logs.
verifyToken(r) ==
    IF r.authorization = NoHeader
      THEN [ok |-> TRUE, log |-> "missing"]
    ELSE IF ~HasBearerPrefix(r.authorization)
      THEN [ok |-> TRUE, log |-> "format"]
    ELSE LET token == TrimBearerPrefix(r.authorization)
         IN  IF token.err \/ ~token.isValid
               THEN [ok |-> TRUE, log |-> "invalid"]
             ELSE IF r.deviceId # token.deviceID
               THEN [ok |-> TRUE, log |-> "mismatch"]
             ELSE [ok |-> TRUE, log |-> "verified"]

\* A request reaches handleWebSocket.
RequestArrives(r) ==
    /\ hs.pc = "none"
    /\ hs' = [hs EXCEPT !.pc = "auth", !.req = r]

\* Lines 160-166: with authorization enabled a request that verifyToken
\* turns down is answered 401 Unauthorized.
AuthCheck ==
    /\ hs.pc = "auth"
    /\ hs' = IF hs.req.enabled
               THEN LET v == verifyToken(hs.req)
                    IN  IF ~v.ok
                          THEN [hs EXCEPT !.pc = "rejected", !.log = v.log,
                                          !.status = 401]
                          ELSE [hs EXCEPT !.pc = "upgrade", !.log = v.log]
               ELSE [hs EXCEPT !.pc = "upgrade", !.log = "off"]

\* Lines 168-172: the upgrade succeeds or fails.
RequestUpgrade(upgradeOk) ==
    /\ hs.pc = "upgrade"
    /\ hs' = [hs EXCEPT !.pc = IF upgradeOk THEN "upgraded" ELSE "failed"]

NextHs ==
    \/ \E r \in Requests : RequestArrives(r) /\ UNCHANGED notHsVars
    \/ AuthCheck /\ UNCHANGED notHsVars
    \/ \E upgradeOk \in BOOLEAN : RequestUpgrade(upgradeOk) /\ UNCHANGED notHsVars

SpecHs == InitPoolUnused /\ [][NextHs]_vars

\* The token failure modes: no Authorization header, no Bearer prefix, a
\* token that does not verify, a verified token for another device.
FailureMode(r) ==
    \/ r.authorization = NoHeader
    \/ ~HasBearerPrefix(r.authorization)
    \/ LET token == TrimBearerPrefix(r.authorization)
       IN  \/ token.err \/ ~token.isValid
           \/ r.deviceId # token.deviceID

\* C19: with authorization enabled, a request in any token failure mode
\* passes verifyToken and goes on to the upgrade; 401 is never answered.
C19_AuthAdmitsEveryFailure ==
    /\ hs.status # 401
    /\ hs.pc # "rejected"
    /\ (hs.req.enabled /\ FailureMode(hs.req) /\ hs.pc \notin {"none", "auth"})
          => /\ hs.pc \in {"upgrade", "upgraded", "failed"}
             /\ hs.log \in {"missing", "format", "invalid", "mismatch"}
             /\ verifyToken(hs.req).ok

\* A verified token for another device was let through and upgraded.
C19_Witness ==
    /\ hs.req.enabled
    /\ hs.log = "mismatch"
    /\ hs.pc = "upgraded"

\* ---------------------------------------------------------------- callbacks
\* src/src/task/callbacks.go.  A worker calls OnComplete and OnError on
\* CallBacks; each call with a callback set starts a goroutine that runs
\* the callback under a deferred recover.
MaxCalls == 3           \* calls of OnComplete and OnError the worker makes

\* One CallBack of each kind: made with a nil function, with a function
\* that returns, with one that panics, with one that never returns.
CallBackKinds == {"nil", "returns", "panics", "blocks"}

\* What a call adds to the record of calls: nothing was started for a nil
\* callback, a goroutine otherwise.
Started(c, op, errNil) ==
    [cb |-> c, op |-> op, errNil |-> errNil,
     st |-> IF c = "nil" THEN "skipped" ELSE "spawned", invoked |-> 0]
\* OnComplete running the callback in the caller's goroutine: the caller
\* waits for it, and can make no further call once a callback blocks.
OnCompleteInline(c) ==
    /\ ~cbs.crashed
    /\ Len(cbs.calls) < MaxCalls
    /\ \A i \in 1..Len(cbs.calls) : cbs.calls[i].st # "blocked"
    /\ cbs' = [cbs EXCEPT
                 !.calls = Append(@,
                     [cb |-> c, op |-> "complete", errNil |-> FALSE,
                      st |-> CASE c = "nil" -> "skipped"
                               [] c = "returns" -> "done"
                               [] c = "panics" -> "recovered"
                               [] OTHER -> "blocked",
                      invoked |-> IF c = "nil" THEN 0 ELSE 1])]

\* OnComplete, lines 17-28: returns as soon as the goroutine is started.
OnComplete(c) ==
    /\ ~cbs.crashed
    /\ Len(cbs.calls) < MaxCalls
    /\ cbs' = [cbs EXCEPT !.calls = Append(@, Started(c, "complete", FALSE))]

\* OnError, lines 30-45: the same, for an error that may be nil.
OnError(c, errNil) ==
    /\ ~cbs.crashed
    /\ Len(cbs.calls) < MaxCalls
    /\ cbs' = [cbs EXCEPT !.calls = Append(@, Started(c, "error", errNil))]

\* The goroutine of call i panics before it reaches the callback: OnError
\* evaluates err.Error() on a nil error (line 39).
PanicsEarly(i) == cbs.calls[i].op = "error" /\ cbs.calls[i].errNil

\* The goroutine without the deferred recover: a panic ends the process.
CallbackRunUnprotected(i) ==
    /\ ~cbs.crashed
    /\ i \in 1..Len(cbs.calls)
    /\ cbs.calls[i].st = "spawned"
    /\ cbs' = IF PanicsEarly(i)
                THEN [cbs EXCEPT !.crashed = TRUE, !.calls[i].st = "panicked"]
              ELSE IF cbs.calls[i].cb = "panics"
                THEN [cbs EXCEPT !.crashed = TRUE, !.calls[i].st = "panicked",
                                 !.calls[i].invoked = 1]
              ELSE [cbs EXCEPT !.calls[i].invoked = 1,
                               !.calls[i].st = IF cbs.calls[i].cb = "blocks"
                                                 THEN "blocked" ELSE "done"]

\* Lines 19-26 and 32-43: the goroutine of call i runs.  A panic, of the
\* callback or before it, is caught by the deferred recover and logged, and
\* the goroutine ends; a callback that never returns keeps its goroutine.
CallbackRun(i) ==
    /\ ~cbs.crashed
    /\ i \in 1..Len(cbs.calls)
    /\ cbs.calls[i].st = "spawned"
    /\ cbs' = IF PanicsEarly(i)
                THEN [cbs EXCEPT !.calls[i].st = "recovered"]
              ELSE IF cbs.calls[i].cb = "panics"
                THEN [cbs EXCEPT !.calls[i].st = "recovered",
                                 !.calls[i].invoked = 1]
              ELSE [cbs EXCEPT !.calls[i].invoked = 1,
                               !.calls[i].st = IF cbs.calls[i].cb = "blocks"
                                                 THEN "blocked" ELSE "done"]

NextCb ==
    \/ \E c \in CallBackKinds : OnComplete(c) /\ UNCHANGED notCbVars
    \/ \E c \in CallBackKinds : \E errNil \in BOOLEAN : OnError(c, errNil) /\ UNCHANGED notCbVars
    \/ \E i \in 1..MaxCalls : CallbackRun(i) /\ UNCHANGED notCbVars

SpecCb == InitPoolUnused /\ [][NextCb]_vars

\* The callback of call i panicked.
CallbackPanicked(i) ==
    /\ i \in 1..Len(cbs.calls)
    /\ cbs.calls[i].cb = "panics"
    /\ cbs.calls[i].invoked = 1

\* C20: a panic of a callback run through OnComplete or OnError is recovered
\* in the callback's goroutine: the process goes on, the worker can make its
\* next call, and the goroutine of every other call can still run its
\* callback.
C20_CallbackPanicRecovered ==
    /\ ~cbs.crashed
    /\ \A i \in 1..Len(cbs.calls) :
          CallbackPanicked(i) =>
              /\ cbs.calls[i].st = "recovered"
              /\ Len(cbs.calls) < MaxCalls =>
                    ENABLED (OnComplete("returns") /\ UNCHANGED notCbVars)
              /\ \A j \in 1..Len(cbs.calls) :
                    cbs.calls[j].st = "spawned" =>
                        ENABLED (CallbackRun(j) /\ UNCHANGED notCbVars)

\* A callback panicked and was recovered, and the callback of a later call
\* on another CallBack ran to its end.
C20_Witness ==
    \E i, j \in 1..Len(cbs.calls) :
        /\ i < j
        /\ CallbackPanicked(i)
        /\ cbs.calls[i].st = "recovered"
        /\ cbs.calls[j].invoked = 1
        /\ cbs.calls[j].st = "done"

\* The goroutine of call i has got as far as it ever will: it ended, or it
\* sits in a callback that never returns.
Settled(i) == cbs.calls[i].st \in {"done", "recovered", "blocked"}

\* C21: OnComplete and OnError return without waiting for the callback, so
\* that the worker can go on to its next call even while a callback blocks;
\* a call on a CallBack with a callback set invokes the callback exactly
\* once, a call on one without invokes nothing.
C21_CallbackInvokedOnce ==
    /\ Len(cbs.calls) < MaxCalls =>
          ENABLED (OnComplete("returns") /\ UNCHANGED notCbVars)
    /\ \A i \in 1..Len(cbs.calls) :
          /\ cbs.calls[i].cb = "nil" =>
                cbs.calls[i].st = "skipped" /\ cbs.calls[i].invoked = 0
          /\ (cbs.calls[i].cb # "nil" /\ Settled(i)) =>
                cbs.calls[i].invoked = 1

\* C21 as amended: OnComplete and OnError return without waiting for the
\* callback; a call on a CallBack without a callback invokes nothing; a call
\* of OnComplete, or of OnError with an error that is not nil, on a CallBack
\* with a callback invokes it exactly once; OnError with a nil error panics
\* in its goroutine before it reaches the callback, is recovered, and the
\* callback is not invoked.
C21_CallbackInvokedOnceUnlessNilError ==
    /\ Len(cbs.calls) < MaxCalls =>
          /\ ENABLED (OnComplete("returns") /\ UNCHANGED notCbVars)
          /\ ENABLED (OnError("returns", FALSE) /\ UNCHANGED notCbVars)
    /\ \A i \in 1..Len(cbs.calls) :
          /\ cbs.calls[i].invoked \in {0, 1}
          /\ cbs.calls[i].cb = "nil" =>
                cbs.calls[i].st = "skipped" /\ cbs.calls[i].invoked = 0
          /\ (cbs.calls[i].cb # "nil" /\ Settled(i)) =>
                cbs.calls[i].invoked = IF PanicsEarly(i) THEN 0 ELSE 1

\* A callback blocks for ever, and the worker has made a later call whose
\* callback ran to its end.
C21_Witness ==
    \E i, j \in 1..Len(cbs.calls) :
        /\ i < j
        /\ cbs.calls[i].st = "blocked"
        /\ cbs.calls[j].st = "done"
        /\ cbs.calls[j].invoked = 1


\* ====================================================================
\* The vision provider (src/src/core/providers/vlllm/vlllm.go).
\* ResponseWithImage returns a channel of strings and starts one producer
\* goroutine, which asks the vendor, reads the vendor's stream chunk by
\* chunk, filters each chunk through handleThinkTags and sends what is left
\* on the channel; a deferred close ends the channel when the goroutine
\* returns.  The reader of the channel and the owner of the context are the
\* caller.
\* ====================================================================

\* Capacity of responseChan.
ChanCap == 10

\* Chunks the vendor stream delivers in one request.
MaxChunks == 3

\* A content string is a sequence of pieces: the two tags and plain text.
\* The contents a chunk can carry are nothing, one tag alone, text alone,
\* and a tag together with text.
Contents == {<< >>, <<"a">>, <<"<think>">>, <<"</think>">>,
             <<"<think>", "a">>, <<"a", "</think>">>,
             <<"<think>", "a", "</think>">>}

VlTypes == {"openai", "ollama", "other"}

\* How the request to the vendor ends, before any chunk is read.
RequestOutcomes(type) ==
    IF type = "openai" THEN {"ok", "create"}
    ELSE {"ok", "marshal", "build", "do", "status"}

\* What one read of the vendor stream returns: a chunk (openai: possibly
\* without choices; ollama: possibly flagged Done) or an error.
Reads(type) ==
    [err : {"none"}, choices : IF type = "openai" THEN BOOLEAN ELSE {TRUE},
     content : Contents, done : IF type = "ollama" THEN BOOLEAN ELSE {FALSE}]
    \cup [err : {"eof", "vendor", "cancelled"}, choices : {FALSE},
          content : {<< >>}, done : {FALSE}]

\* handleThinkTags: a chunk that is exactly a tag switches isActive and is
\* dropped; any other chunk passes whole while isActive and is dropped
\* whole otherwise.
handleThinkTags(content, isActive) ==
    IF content = << >> THEN [content |-> << >>, isActive |-> isActive]
    ELSE IF content = <<"<think>">> THEN [content |-> << >>, isActive |-> FALSE]
    ELSE IF content = <<"</think>">> THEN [content |-> << >>, isActive |-> TRUE]
    ELSE IF ~isActive THEN [content |-> << >>, isActive |-> isActive]
    ELSE [content |-> content, isActive |-> isActive]

\* ResponseWithImage: a failed ProcessImage or an unsupported type returns
\* an error and no channel; otherwise the channel is made and the producer
\* goroutine started.
ResponseWithImage(type, imageOk) ==
    /\ vl.pc = "idle"
    /\ vl' = [vl EXCEPT !.kind = type,
                        !.pc = IF imageOk /\ type # "other"
                               THEN "request" ELSE "refused"]

\* The producer's request to the vendor.  On a failure it sends the error
\* sentinel and returns; on success it goes on to read the stream.
RequestDone(outcome) ==
    /\ vl.pc = "request"
    /\ outcome \in RequestOutcomes(vl.kind)
    /\ vl' = IF outcome = "ok"
             THEN [vl EXCEPT !.pc = "recv"]
             ELSE [vl EXCEPT !.pc = "send", !.pending = [kind |-> "error", text |-> << >>],
                             !.failure = outcome]

\* One turn of the producer's loop up to the send: stream.Recv or
\* decoder.Decode, then handleThinkTags.  An error ends the loop; a chunk
\* with text left after the filter goes to the send; an ollama chunk
\* flagged Done ends the loop after it.  When the context is cancelled the
\* vendor's read may still deliver what it had, or fail.
StreamRecv(r, max) ==
    /\ vl.pc = "recv"
    /\ r \in Reads(vl.kind)
    /\ r.err = "cancelled" => vl.cancelled
    /\ r.err = "none" => vl.n < max
    /\ IF r.err # "none"
       THEN vl' = [vl EXCEPT !.pc = "finish",
                             !.failure = IF r.err = "vendor" THEN "stream"
                                         ELSE "none"]
       ELSE LET content == IF r.choices THEN r.content ELSE << >>
                res == handleThinkTags(content, vl.isActive)
            IN  vl' = [vl EXCEPT
                    !.n = @ + 1,
                    !.heard = @ \o content,
                    !.isActive = res.isActive,
                    !.done = r.done,
                    !.pending = IF res.content # << >>
                                THEN [kind |-> "text", text |-> res.content]
                                ELSE << >>,
                    !.pc = IF res.content # << >> THEN "send"
                           ELSE IF r.done THEN "finish" ELSE "recv"]

\* responseChan <- content: possible only while the buffer has room.
ChanSend ==
    /\ vl.pc = "send"
    /\ Len(vl.buf) < ChanCap
    /\ vl' = [vl EXCEPT !.buf = Append(@, vl.pending),
                        !.out = Append(@, vl.pending),
                        !.pending = << >>,
                        !.pc = IF vl.done \/ vl.failure # "none"
                               THEN "finish" ELSE "recv"]

\* A producer that closes the channel without waiting for its last send.
ProducerReturnEarly ==
    /\ vl.pc \in {"finish", "send"}
    /\ vl' = [vl EXCEPT !.pc = "closed", !.closes = @ + 1]

\* The producer goroutine returns: the deferred close(responseChan).
ProducerReturn ==
    /\ vl.pc = "finish"
    /\ vl' = [vl EXCEPT !.pc = "closed", !.closes = @ + 1]

\* The caller receives one string from the channel.
ConsumerRecv ==
    /\ vl.consumer = "reading"
    /\ vl.buf # << >>
    /\ vl' = [vl EXCEPT !.buf = Tail(@)]

\* The caller finds the channel closed and empty: its range loop ends.
ConsumerEnd ==
    /\ vl.consumer = "reading"
    /\ vl.buf = << >>
    /\ vl.closes > 0
    /\ vl' = [vl EXCEPT !.consumer = "ended"]

\* The caller's context is cancelled.
Cancel ==
    /\ vl.pc \notin {"idle", "refused"}
    /\ ~vl.cancelled
    /\ vl' = [vl EXCEPT !.cancelled = TRUE]

\* After the cancellation the caller stops reading the channel.
ConsumerStop ==
    /\ vl.cancelled
    /\ vl.consumer = "reading"
    /\ vl' = [vl EXCEPT !.consumer = "stopped"]

NextVl ==
    \/ (\E type \in VlTypes, imageOk \in BOOLEAN :
            ResponseWithImage(type, imageOk)) /\ UNCHANGED notVlVars
    \/ (\E outcome \in RequestOutcomes(vl.kind) : RequestDone(outcome))
            /\ UNCHANGED notVlVars
    \/ (\E r \in Reads(vl.kind) : StreamRecv(r, MaxChunks))
            /\ UNCHANGED notVlVars
    \/ ChanSend /\ UNCHANGED notVlVars
    \/ ProducerReturn /\ UNCHANGED notVlVars
    \/ ConsumerRecv /\ UNCHANGED notVlVars
    \/ ConsumerEnd /\ UNCHANGED notVlVars
    \/ Cancel /\ UNCHANGED notVlVars
    \/ ConsumerStop /\ UNCHANGED notVlVars

SpecVl == InitPoolUnused /\ [][NextVl]_vars

\* The text of a stream with everything between <think> and </think>
\* taken out, whatever the chunks were.
RECURSIVE Visible(_, _)
Visible(s, active) ==
    IF s = << >> THEN << >>
    ELSE IF Head(s) = "<think>" THEN Visible(Tail(s), FALSE)
    ELSE IF Head(s) = "</think>" THEN Visible(Tail(s), TRUE)
    ELSE (IF active THEN <<Head(s)>> ELSE << >>) \o Visible(Tail(s), active)

\* The text the producer has sent, in order.
RECURSIVE Emitted(_)
Emitted(items) ==
    IF items = << >> THEN << >>
    ELSE (IF Head(items).kind = "text" THEN Head(items).text ELSE << >>)
         \o Emitted(Tail(items))

\* C22: whatever the chunks, once the producer is between two chunks or
\* has ended, the plain text it has sent is the text of the stream without
\* the parts between <think> and </think>: none of those is sent and all
\* the rest is.
C22_ThinkTextNeverEmitted ==
    vl.pc \in {"recv", "finish", "closed"} =>
        SelectSeq(Emitted(vl.out),
                  LAMBDA piece : piece \notin {"<think>", "</think>"})
            = Visible(vl.heard, TRUE)


\* A long answer in plain text: the vendor stream delivers up to one chunk
\* more than responseChan holds, each of them text outside any tag.
LongStreamRecv ==
    \E r \in Reads(vl.kind) :
        /\ r.err = "none" => (r.choices /\ r.content = <<"a">>)
        /\ StreamRecv(r, ChanCap + 1)

NextVlLong ==
    \/ (\E type \in VlTypes, imageOk \in BOOLEAN :
            ResponseWithImage(type, imageOk)) /\ UNCHANGED notVlVars
    \/ (\E outcome \in RequestOutcomes(vl.kind) : RequestDone(outcome))
            /\ UNCHANGED notVlVars
    \/ LongStreamRecv /\ UNCHANGED notVlVars
    \/ ChanSend /\ UNCHANGED notVlVars
    \/ ProducerReturn /\ UNCHANGED notVlVars
    \/ ConsumerRecv /\ UNCHANGED notVlVars
    \/ ConsumerEnd /\ UNCHANGED notVlVars
    \/ Cancel /\ UNCHANGED notVlVars
    \/ ConsumerStop /\ UNCHANGED notVlVars

SpecVlLong == InitPoolUnused /\ [][NextVlLong]_vars

\* The steps of the producer goroutine.
ProducerStep ==
    \/ \E outcome \in RequestOutcomes(vl.kind) : RequestDone(outcome)
    \/ \E r \in Reads(vl.kind) : StreamRecv(r, ChanCap + 1)
    \/ ChanSend
    \/ ProducerReturn

\* C23: once the context is cancelled and the consumer has stopped
\* reading, a producer that has not returned yet can always take its next
\* step towards closing the channel: it is never left blocked on a send,
\* even with the buffer full.
C23_ProducerNeverBlockedAfterCancel ==
    (/\ vl.cancelled
     /\ vl.consumer = "stopped"
     /\ vl.pc \in {"request", "recv", "send", "finish"})
        => ENABLED (ProducerStep /\ UNCHANGED notVlVars)


\* The long answer with a scheduler that runs the producer goroutine
\* whenever it can take a step, a vendor whose read returns, and a consumer
\* that receives whenever the channel holds a string.
FairSpecVlLong ==
    /\ SpecVlLong
    /\ WF_vars((\E outcome \in RequestOutcomes(vl.kind) : RequestDone(outcome))
                    /\ UNCHANGED notVlVars)
    /\ WF_vars(LongStreamRecv /\ UNCHANGED notVlVars)
    /\ WF_vars(ChanSend /\ UNCHANGED notVlVars)
    /\ WF_vars(ProducerReturn /\ UNCHANGED notVlVars)
    /\ WF_vars(ConsumerRecv /\ UNCHANGED notVlVars)

\* C24: the sequence returned by ResponseWithImage is finite and closed
\* exactly once: the channel is closed at most once and only with every
\* token sent, nothing is sent after the close, and with a consumer that
\* keeps reading every started producer ends by closing the channel, on
\* every path (request failure, status, read error, stream end, Done).
C24_FiniteClosedOnce ==
    /\ [](/\ vl.closes <= 1
          /\ vl.closes = 1 <=> vl.pc = "closed"
          /\ vl.pc = "closed" => vl.pending = << >>
          /\ Len(vl.out) <= vl.n + 1)
    /\ [][vl.closes > 0 => (vl'.out = vl.out /\ vl'.closes = vl.closes)]_vars
    /\ \/ <>(vl.consumer = "stopped")
       \/ vl.pc \in {"request", "recv", "send", "finish"} ~> vl.pc = "closed"

\* A long answer sent whole, through a buffer that was full on the way,
\* and then closed and read to its end.
C24_Witness ==
    /\ vl.pc = "closed"
    /\ vl.closes = 1
    /\ Len(vl.out) = ChanCap + 1
    /\ vl.consumer = "ended"


\* C25: every vendor failure surfaces as an error sentinel: when the
\* vendor call has failed (request not built or not sent, status other than
\* 200, or an error while reading the started stream), the channel carries
\* an error message by the time it is closed.
C25_FailureSendsSentinel ==
    (vl.pc = "closed" /\ vl.failure # "none") =>
        \E i \in 1..Len(vl.out) : vl.out[i].kind = "error"


\* ====================================================================
\* Device activation (src/unnamed/part_004 and src/src/service/active.go:
\* DeviceService; src/src/task/callbacks.go: ActiveHandler;
\* src/unnamed/part_000: handleOtaPost; src/src/models/models.go: Device).
\* A device registers and is given a challenge; it is activated by
\* answering the challenge with an HMAC; the OTA endpoint and GetToken
\* hand a WebSocket token to an activated device.
\* ====================================================================

\* Records the devices table can hold.
MaxDevices == 2

\* The key written into the older ActivateDevice.
HardKey == "your-hmac-key-here"

Challenges == {"x", "y"}

\* HMAC-SHA256 of a challenge under a key, taken as free of collisions: two
\* HMACs are equal only for the same key and the same challenge.
HMAC(hmacKey, challenge) == <<hmacKey, challenge>>

\* The HMACs requests carry: each is the HMAC of the challenge the request
\* sends along (its second component), under the key a server may be
\* configured with or under the key written in the older code.
Hmacs == {HMAC(k, c) : k \in {"k", HardKey}, c \in Challenges}

\* Device.VerifyHMAC: the HMAC given equals the HMAC of the challenge under
\* the key.
VerifyHMAC(challenge, hmacHex, hmacKey) == hmacHex = HMAC(hmacKey, challenge)

\* The devices that register: a serial number with its MAC address.
Hardware == {[serial |-> "s1", mac |-> "m1"], [serial |-> "s2", mac |-> "m2"]}

Macs == {h.mac : h \in Hardware}

DevClientIds == {"", "c1"}

\* Primary keys a request may name: those of the records and one more.
DevIds == 1..(MaxDevices + 1)

\* IdentifyDevice: by serial number, else by MAC address, else by client
\* id, skipping an empty value; First is the record with the lowest primary
\* key among those matching, and 0 stands for ErrRecordNotFound.
IdentifyDevice(serialNumber, deviceID, clientID) ==
    LET First(S) == IF S = {} THEN 0 ELSE CHOOSE i \in S : \A j \in S : i <= j
        Ids == 1..Len(dev.db)
        bySerial == First({i \in Ids : dev.db[i].serial = serialNumber})
        byMac == First({i \in Ids : dev.db[i].mac = deviceID})
        byClient == First({i \in Ids : dev.db[i].client = clientID})
    IN  IF serialNumber # "" /\ bySerial # 0 THEN bySerial
        ELSE IF deviceID # "" /\ byMac # 0 THEN byMac
        ELSE IF clientID # "" /\ byClient # 0 THEN byClient
        ELSE 0

\* NewDevice(config): the service keeps the configuration and its HMAC key
\* (Server.Device.HmacKey), which is not set ("") or set.
NewDevice(hmacKey) ==
    /\ dev.pc = "new"
    /\ dev' = [dev EXCEPT !.pc = "ready", !.key = hmacKey]

\* The activation codes GenerateActivationCode yields.  Nothing in the
\* service reads a stored code, so a registration draws its code together
\* with its challenge: "a" with "x" and "b" with "y".
ActivationCodes == {"a", "b"}

\* A CreateOrUpdateDevice that gives every device it finds a new challenge
\* and activation code, activated or not.
RegisterRenews(hw, clientID, fresh, code) ==
    /\ dev.pc = "ready"
    /\ LET id == IdentifyDevice(hw.serial, hw.mac, clientID)
           req == [NoDevRequest EXCEPT !.op = "register", !.serial = hw.serial,
                                       !.mac = hw.mac, !.client = clientID]
       IN  IF id = 0
           THEN /\ Len(dev.db) < MaxDevices
                /\ dev' = [dev EXCEPT
                      !.db = Append(@, [serial |-> hw.serial, mac |-> hw.mac,
                                        client |-> clientID,
                                        challenge |-> fresh,
                                        code |-> code,
                                        activated |-> FALSE]),
                      !.req = req,
                      !.resp = [err |-> FALSE, token |-> "random",
                                id |-> Len(dev.db) + 1]]
           ELSE dev' = [dev EXCEPT
                      !.db[id].mac = hw.mac,
                      !.db[id].client = clientID,
                      !.db[id].challenge = fresh,
                      !.db[id].code = code,
                      !.req = req,
                      !.resp = [err |-> FALSE, token |-> "random", id |-> id]]

\* ActiveHandler.Register with CreateOrUpdateDevice: a device not found is
\* created, not activated, with a fresh challenge and activation code; a
\* device found has its columns updated and, unless activated, a fresh
\* challenge and activation code.  The response carries the record's
\* random Token column.
Register(hw, clientID, fresh, code) ==
    /\ dev.pc = "ready"
    /\ LET id == IdentifyDevice(hw.serial, hw.mac, clientID)
           req == [NoDevRequest EXCEPT !.op = "register", !.serial = hw.serial,
                                       !.mac = hw.mac, !.client = clientID]
       IN  IF id = 0
           THEN /\ Len(dev.db) < MaxDevices
                /\ dev' = [dev EXCEPT
                      !.db = Append(@, [serial |-> hw.serial, mac |-> hw.mac,
                                        client |-> clientID,
                                        challenge |-> fresh,
                                        code |-> code,
                                        activated |-> FALSE]),
                      !.req = req,
                      !.resp = [err |-> FALSE, token |-> "random",
                                id |-> Len(dev.db) + 1]]
           ELSE dev' = [dev EXCEPT
                      !.db[id].mac = hw.mac,
                      !.db[id].client = clientID,
                      !.db[id].challenge =
                            IF dev.db[id].activated THEN @ ELSE fresh,
                      !.db[id].code =
                            IF dev.db[id].activated THEN @ ELSE code,
                      !.req = req,
                      !.resp = [err |-> FALSE, token |-> "random", id |-> id]]

\* The checks ActivateDevice makes with the key it is given: the record
\* exists, the challenge is the stored one, the key is set, the HMAC is
\* that of the challenge under the key.
ActivationChecks(id, challenge, hmacHex, hmacKey) ==
    /\ id \in 1..Len(dev.db)
    /\ dev.db[id].challenge = challenge
    /\ hmacKey # ""
    /\ VerifyHMAC(challenge, hmacHex, hmacKey)

\* The older ActivateDevice of active.go: the key is the string written in
\* the code, whatever the configuration says.
ActivateDeviceHardKey(id, challenge, hmacHex) ==
    /\ dev.pc = "ready"
    /\ LET ok == ActivationChecks(id, challenge, hmacHex, HardKey)
       IN  dev' = [dev EXCEPT
              !.db = IF ok THEN [@ EXCEPT ![id].activated = TRUE] ELSE @,
              !.passed = IF ok THEN @ \cup {id} ELSE @,
              !.req = [NoDevRequest EXCEPT !.op = "activate", !.id = id,
                          !.challenge = challenge, !.hmac = hmacHex],
              !.resp = [err |-> ~ok, token |-> "none", id |-> id]]

\* ActivateDevice of the newer service: the key is Server.Device.HmacKey.
ActivateDevice(id, challenge, hmacHex) ==
    /\ dev.pc = "ready"
    /\ LET ok == ActivationChecks(id, challenge, hmacHex, dev.key)
       IN  dev' = [dev EXCEPT
              !.db = IF ok THEN [@ EXCEPT ![id].activated = TRUE] ELSE @,
              !.passed = IF ok THEN @ \cup {id} ELSE @,
              !.req = [NoDevRequest EXCEPT !.op = "activate", !.id = id,
                          !.challenge = challenge, !.hmac = hmacHex],
              !.resp = [err |-> ~ok, token |-> "none", id |-> id]]

\* An ActivateDeviceAndGetToken that replaces the challenge it has just
\* accepted, so that every answer is good for one use.
LoginRotates(id, challenge, hmacHex, genOk) ==
    /\ dev.pc = "ready"
    /\ LET ok == ActivationChecks(id, challenge, hmacHex, dev.key)
       IN  dev' = [dev EXCEPT
              !.db = IF ok
                       THEN [@ EXCEPT ![id].activated = TRUE,
                                      ![id].challenge =
                                          CHOOSE c \in Challenges : c # challenge]
                       ELSE @,
              !.passed = IF ok THEN @ \cup {id} ELSE @,
              !.req = [NoDevRequest EXCEPT !.op = "login", !.id = id,
                          !.challenge = challenge, !.hmac = hmacHex,
                          !.genOk = genOk],
              !.resp = [err |-> ~(ok /\ genOk),
                        token |-> IF ok /\ genOk THEN "jwt" ELSE "none",
                        id |-> id]]

\* ActiveHandler.Login with ActivateDeviceAndGetToken: the same checks and
\* update, then a JWT from GenerateToken, which may fail.
Login(id, challenge, hmacHex, genOk) ==
    /\ dev.pc = "ready"
    /\ LET ok == ActivationChecks(id, challenge, hmacHex, dev.key)
       IN  dev' = [dev EXCEPT
              !.db = IF ok THEN [@ EXCEPT ![id].activated = TRUE] ELSE @,
              !.passed = IF ok THEN @ \cup {id} ELSE @,
              !.req = [NoDevRequest EXCEPT !.op = "login", !.id = id,
                          !.challenge = challenge, !.hmac = hmacHex,
                          !.genOk = genOk],
              !.resp = [err |-> ~(ok /\ genOk),
                        token |-> IF ok /\ genOk THEN "jwt" ELSE "none",
                        id |-> id]]

\* A GetDeviceToken that leaves out the check of the Activated flag.
GetTokenUnactivated(deviceID, clientID, challenge, hmacHex, genOk) ==
    /\ dev.pc = "ready"
    /\ LET id == IdentifyDevice("", deviceID, clientID)
           ok == /\ id # 0
                 /\ dev.db[id].challenge = challenge
                 /\ dev.key # ""
                 /\ VerifyHMAC(challenge, hmacHex, dev.key)
                 /\ genOk
       IN  dev' = [dev EXCEPT
              !.req = [NoDevRequest EXCEPT !.op = "token", !.mac = deviceID,
                          !.client = clientID, !.challenge = challenge,
                          !.hmac = hmacHex, !.genOk = genOk],
              !.resp = [err |-> ~ok, token |-> IF ok THEN "jwt" ELSE "none",
                        id |-> id]]

\* ActiveHandler.GetToken with GetDeviceToken: the device is found by MAC
\* or client id, is activated, and answers its challenge; then a JWT.
GetToken(deviceID, clientID, challenge, hmacHex, genOk) ==
    /\ dev.pc = "ready"
    /\ LET id == IdentifyDevice("", deviceID, clientID)
           ok == /\ id # 0
                 /\ dev.db[id].activated
                 /\ dev.db[id].challenge = challenge
                 /\ dev.key # ""
                 /\ VerifyHMAC(challenge, hmacHex, dev.key)
                 /\ genOk
       IN  dev' = [dev EXCEPT
              !.req = [NoDevRequest EXCEPT !.op = "token", !.mac = deviceID,
                          !.client = clientID, !.challenge = challenge,
                          !.hmac = hmacHex, !.genOk = genOk],
              !.resp = [err |-> ~ok, token |-> IF ok THEN "jwt" ELSE "none",
                        id |-> id]]

\* handleOtaPost with a device-id header: the response is 200 and carries
\* a token when the device is found, is activated and GenerateToken
\* succeeds.
OtaPost(deviceID, clientID, genOk) ==
    /\ dev.pc = "ready"
    /\ LET id == IdentifyDevice("", deviceID, clientID)
           ok == id # 0 /\ dev.db[id].activated /\ genOk
       IN  dev' = [dev EXCEPT
              !.req = [NoDevRequest EXCEPT !.op = "ota", !.mac = deviceID,
                          !.client = clientID, !.genOk = genOk],
              !.resp = [err |-> FALSE, token |-> IF ok THEN "jwt" ELSE "none",
                        id |-> id]]

NextDev ==
    \/ (\E hmacKey \in {"", "k"} : NewDevice(hmacKey)) /\ UNCHANGED notDevVars
    \/ (\E hw \in Hardware, clientID \in DevClientIds,
           gen \in Challenges \X ActivationCodes :
            /\ (gen[1] = "x") = (gen[2] = "a")
            /\ Register(hw, clientID, gen[1], gen[2])) /\ UNCHANGED notDevVars
    \/ (\E id \in DevIds, hmacHex \in Hmacs :
            ActivateDeviceHardKey(id, hmacHex[2], hmacHex))
            /\ UNCHANGED notDevVars
    \/ (\E id \in DevIds, hmacHex \in Hmacs :
            ActivateDevice(id, hmacHex[2], hmacHex)) /\ UNCHANGED notDevVars
    \/ (\E id \in DevIds, hmacHex \in Hmacs, genOk \in BOOLEAN :
            Login(id, hmacHex[2], hmacHex, genOk)) /\ UNCHANGED notDevVars
    \/ (\E deviceID \in Macs, clientID \in DevClientIds, hmacHex \in Hmacs,
           genOk \in BOOLEAN :
            GetToken(deviceID, clientID, hmacHex[2], hmacHex, genOk))
            /\ UNCHANGED notDevVars
    \/ (\E deviceID \in Macs, clientID \in DevClientIds, genOk \in BOOLEAN :
            OtaPost(deviceID, clientID, genOk)) /\ UNCHANGED notDevVars

SpecDev == InitPoolUnused /\ [][NextDev]_vars

\* C26: a device's Activated flag becomes true only in a step handling an
\* activation request that names the device, carries its stored challenge
\* and the HMAC of that challenge under the configured, non-empty key; an
\* activation request failing a check gets an error and no token and
\* leaves the devices table as it was.
C26_ActivationHmacVerified ==
    [][LET Activation == dev' # dev /\ dev'.req.op \in {"activate", "login"}
           Proper == ActivationChecks(dev'.req.id, dev'.req.challenge,
                                      dev'.req.hmac, dev.key)
       IN  /\ \A id \in 1..Len(dev.db) :
                 (~dev.db[id].activated /\ dev'.db[id].activated) =>
                     (Activation /\ dev'.req.id = id /\ Proper)
           /\ (Activation /\ ~Proper) =>
                 (/\ dev'.resp.err
                  /\ dev'.resp.token = "none"
                  /\ dev'.db = dev.db)
      ]_vars


C37_ActivationMonotone ==
    [][LET Registers(id) == dev'.req.op = "register" /\ dev'.resp.id = id
       IN  /\ Len(dev'.db) \in {Len(dev.db), Len(dev.db) + 1}
           /\ \A id \in 1..Len(dev.db) :
                 /\ dev.db[id].activated =>
                       /\ dev'.db[id].activated
                       /\ dev'.db[id].challenge = dev.db[id].challenge
                       /\ dev'.db[id].code = dev.db[id].code
                 /\ (\/ dev'.db[id].challenge # dev.db[id].challenge
                     \/ dev'.db[id].code # dev.db[id].code) =>
                       (Registers(id) /\ ~dev.db[id].activated)
                 /\ (Registers(id) /\ ~dev.db[id].activated) =>
                       /\ ~dev'.db[id].activated
                       /\ dev'.db[id].challenge \in Challenges
                       /\ dev'.db[id].code \in ActivationCodes
           /\ Len(dev'.db) = Len(dev.db) + 1 =>
                 /\ Registers(Len(dev'.db))
                 /\ ~dev'.db[Len(dev'.db)].activated
                 /\ dev'.db[Len(dev'.db)].challenge \in Challenges
                 /\ dev'.db[Len(dev'.db)].code \in ActivationCodes
      ]_vars

\* An activated device has registered again, next to a device that is not
\* activated and whose registrations gave it a challenge different from
\* that of the first.
C37_Witness ==
    /\ Len(dev.db) = 2
    /\ dev.req.op = "register"
    /\ dev.resp.id = 1
    /\ dev.db[1].activated
    /\ ~dev.db[2].activated
    /\ dev.db[2].challenge # dev.db[1].challenge


\* C38: an answer that was accepted stays good.  A login or token request
\* that succeeds leaves the device's stored challenge as it was, and the
\* device, then activated, accepts the pair the request carried.  A pair an
\* activated device accepts is accepted by it after every step.  A login
\* naming the device, or a token request identifying it, that carries such
\* a pair is answered with a token whenever GenerateToken succeeds.
C38_AcceptedPairStaysGood ==
    [][LET Accepts(db, id, c, h) ==
               /\ id \in 1..Len(db)
               /\ db[id].activated
               /\ db[id].challenge = c
               /\ dev.key # ""
               /\ VerifyHMAC(c, h, dev.key)
           r == dev'.req
           byHeaders == IdentifyDevice("", r.mac, r.client)
       IN  /\ (r.op \in {"login", "token"} /\ dev'.resp.token = "jwt") =>
                 /\ dev'.resp.id \in 1..Len(dev.db)
                 /\ dev'.db[dev'.resp.id].challenge
                        = dev.db[dev'.resp.id].challenge
                 /\ Accepts(dev'.db, dev'.resp.id, r.challenge, r.hmac)
           /\ dev'.db # dev.db =>
                 \A id \in 1..Len(dev.db), h \in Hmacs :
                     Accepts(dev.db, id, h[2], h) =>
                         Accepts(dev'.db, id, h[2], h)
           /\ (r.op = "login" /\ Accepts(dev.db, r.id, r.challenge, r.hmac)) =>
                 /\ dev'.resp.token = "jwt" <=> r.genOk
                 /\ dev'.resp.id = r.id
           /\ (r.op = "token"
                 /\ Accepts(dev.db, byHeaders, r.challenge, r.hmac)) =>
                 /\ dev'.resp.token = "jwt" <=> r.genOk
                 /\ dev'.resp.id = byHeaders
      ]_vars

\* A device that logged in has registered again since and is given a token
\* by a token request.
C38_Witness ==
    /\ dev.req.op = "token"
    /\ dev.resp.token = "jwt"
    /\ dev.resp.id \in dev.passed
    /\ dev.db[dev.resp.id].client = "c1"
    /\ Len(dev.db) = 2


\* ---------------------------------------------------------------- IdentifyDevice
\* The three queries of IdentifyDevice, in the order the code makes them.
IdentifyKeys == <<"serial", "mac", "client">>

\* An IdentifyDevice that takes a store error for "no such record" and goes
\* on to the next key.
IdentifyDeviceStoreSkips(serialNumber, deviceID, clientID, fails) ==
    LET First(S) == IF S = {} THEN 0 ELSE CHOOSE i \in S : \A j \in S : i <= j
        Ids == 1..Len(dev.db)
        bySerial == First({i \in Ids : dev.db[i].serial = serialNumber})
        byMac == First({i \in Ids : dev.db[i].mac = deviceID})
        byClient == First({i \in Ids : dev.db[i].client = clientID})
    IN  IF serialNumber # "" /\ "serial" \notin fails /\ bySerial # 0
          THEN [id |-> bySerial, err |-> ""]
        ELSE IF deviceID # "" /\ "mac" \notin fails /\ byMac # 0
          THEN [id |-> byMac, err |-> ""]
        ELSE IF clientID # "" /\ "client" \notin fails /\ byClient # 0
          THEN [id |-> byClient, err |-> ""]
        ELSE [id |-> 0, err |-> "notfound"]

\* IdentifyDevice, lines 26-63, with the store's errors: fails holds the
\* queries that end in an error other than ErrRecordNotFound when they are
\* made.  A query is made for a non-empty value only; its record is
\* returned, its store error is returned, and ErrRecordNotFound leads on to
\* the next key.
IdentifyDeviceStore(serialNumber, deviceID, clientID, fails) ==
    LET First(S) == IF S = {} THEN 0 ELSE CHOOSE i \in S : \A j \in S : i <= j
        Ids == 1..Len(dev.db)
        bySerial == First({i \in Ids : dev.db[i].serial = serialNumber})
        byMac == First({i \in Ids : dev.db[i].mac = deviceID})
        byClient == First({i \in Ids : dev.db[i].client = clientID})
    IN  IF serialNumber # "" /\ "serial" \in fails
          THEN [id |-> 0, err |-> "store"]
        ELSE IF serialNumber # "" /\ bySerial # 0
          THEN [id |-> bySerial, err |-> ""]
        ELSE IF deviceID # "" /\ "mac" \in fails
          THEN [id |-> 0, err |-> "store"]
        ELSE IF deviceID # "" /\ byMac # 0
          THEN [id |-> byMac, err |-> ""]
        ELSE IF clientID # "" /\ "client" \in fails
          THEN [id |-> 0, err |-> "store"]
        ELSE IF clientID # "" /\ byClient # 0
          THEN [id |-> byClient, err |-> ""]
        ELSE [id |-> 0, err |-> "notfound"]

\* A call of IdentifyDevice; what it returns is kept in resp.
Identify(serialNumber, deviceID, clientID, fails) ==
    /\ dev.pc = "ready"
    /\ LET r == IdentifyDeviceStore(serialNumber, deviceID, clientID, fails)
       IN  dev' = [dev EXCEPT
              !.req = [NoDevRequest EXCEPT !.op = "identify",
                          !.serial = serialNumber, !.mac = deviceID,
                          !.client = clientID, !.fails = fails],
              !.resp = [err |-> r.err # "", token |-> "none", id |-> r.id,
                        cause |-> r.err]]

\* Devices register, and IdentifyDevice is called with every combination of
\* empty and non-empty keys and of failing queries.
NextIdent ==
    \/ (\E hmacKey \in {"", "k"} : NewDevice(hmacKey)) /\ UNCHANGED notDevVars
    \/ (\E hw \in Hardware, clientID \in DevClientIds :
            Register(hw, clientID, "x", "a")) /\ UNCHANGED notDevVars
    \/ (\E serialNumber \in {""} \cup {h.serial : h \in Hardware},
           deviceID \in {""} \cup Macs, clientID \in DevClientIds,
           fails \in SUBSET Range(IdentifyKeys) :
            Identify(serialNumber, deviceID, clientID, fails))
            /\ UNCHANGED notDevVars

SpecIdent == InitPoolUnused /\ [][NextIdent]_vars

\* C39: IdentifyDevice resolves by priority.  A key is clear when it is
\* empty or its query found nothing.  The record returned matches a
\* non-empty key whose query did not fail, every key before it being clear,
\* and it is the one IdentifyDevice finds when no query fails; a store
\* error is returned for a non-empty key whose query failed, every key
\* before it being clear and no later key deciding; not-found is returned
\* exactly when every key is clear.
C39_IdentifyByPriority ==
    dev.req.op = "identify" =>
        LET r == dev.req
            value == <<r.serial, r.mac, r.client>>
            Match(L, i) == CASE L = 1 -> dev.db[i].serial = value[1]
                             [] L = 2 -> dev.db[i].mac = value[2]
                             [] L = 3 -> dev.db[i].client = value[3]
            Failed(L) == IdentifyKeys[L] \in r.fails
            Clear(L) == \/ value[L] = ""
                        \/ /\ ~Failed(L)
                           /\ \A i \in 1..Len(dev.db) : ~Match(L, i)
            Decided(L) == value[L] # "" /\ \A K \in 1..(L - 1) : Clear(K)
        IN  /\ dev.resp.cause \in {"", "store", "notfound"}
            /\ dev.resp.cause = "" =>
                  /\ dev.resp.id \in 1..Len(dev.db)
                  /\ \E L \in 1..3 :
                        /\ Decided(L) /\ ~Failed(L)
                        /\ Match(L, dev.resp.id)
                        /\ \A i \in 1..Len(dev.db) :
                              Match(L, i) => dev.resp.id <= i
            /\ dev.resp.cause = "store" =>
                  /\ dev.resp.id = 0
                  /\ \E L \in 1..3 : Decided(L) /\ Failed(L)
            /\ dev.resp.cause = "notfound" =>
                  /\ dev.resp.id = 0
                  /\ \A L \in 1..3 : Clear(L)
            /\ r.fails = {} =>
                  dev.resp.id = IdentifyDevice(r.serial, r.mac, r.client)

\* The serial number is unknown and the query by MAC address fails, while
\* the client id matches a record: the store error is returned.
C39_Witness ==
    /\ dev.req.op = "identify"
    /\ dev.req.serial = "s2" /\ dev.req.mac = "m1" /\ dev.req.client = "c1"
    /\ dev.req.fails = {"mac"}
    /\ Len(dev.db) = 1
    /\ dev.db[1].client = "c1"
    /\ dev.resp.cause = "store"


\* C28: when one of the MinSize initial Create calls fails, NewResourcePool
\* returns an error and no pool: fewer than MinSize resources were made,
\* each of them was destroyed, once, by the drain of pool.Close(), none is
\* left in the channel or in a caller's hands, the pool is closed, and no
\* maintenance loop runs for it.
C28_FailedConstructionCleansUp ==
    phase = "failed" =>
        /\ event.op = "new" /\ event.outcome = "failed"
        /\ event.made < config.MinSize
        /\ totalCount = event.made
        /\ event.destroyed = Range(InitialFill(event.made))
        /\ Cardinality(event.destroyed) = event.made
        /\ resources = << >>
        /\ \A c \in Clients : held[c] = None /\ pc[c] = "idle"
        /\ closed /\ stopChan /\ resClosed
        /\ maintPc = "off"

\* The third Create failed: the two resources made before it are destroyed.
C28_Witness ==
    /\ phase = "failed"
    /\ event.made = 2
    /\ event.destroyed = {1, 2}

\* C31: NewResourcePool refuses a nil factory and every configuration with
\* MinSize < 0 or MaxSize < MinSize, and then nothing was created: no
\* resource exists, the counters are zero and no maintenance loop runs.
\* With a valid configuration and every Create succeeding, the new pool has
\* exactly MinSize distinct idle resources, totalCount = MinSize and
\* inUseCount = 0.
C31_ConstructionValidates ==
    /\ (phase # "new" /\ ~ValidConfig(config)) => phase = "rejected"
    /\ phase = "rejected" =>
          /\ event.op = "new"
          /\ event.outcome \in {"nofactory", "rejected"}
          /\ event.outcome = "rejected" => ~ValidConfig(config)
          /\ event.made = 0 /\ event.failed = 0
          /\ Live(resources) = {}
          /\ resources = << >>
          /\ totalCount = 0 /\ inUseCount = 0
          /\ maintPc = "off" /\ closePc = "idle"
    /\ (event.op = "new" /\ event.outcome = "ok") =>
          /\ ValidConfig(config)
          /\ phase = "open"
          /\ Len(resources) = config.MinSize
          /\ Cardinality(Range(resources)) = config.MinSize
          /\ Nil \notin Range(resources)
          /\ totalCount = config.MinSize
          /\ inUseCount = 0
          /\ \A c \in Clients : held[c] = None

\* A pool built with MinSize = 2 right after construction.
C31_Witness ==
    /\ event.op = "new" /\ event.outcome = "ok"
    /\ config.MinSize = 2
    /\ Len(resources) = 2

\* C32: Close is safe under any interleaving with Get, Put and the ticks of
\* the maintenance loop.  The body of closeOnce.Do runs once: the stop
\* channel and the idle channel are each closed while still open and never
\* again.  Once the idle channel is closed nothing is sent to it: its
\* content only shrinks from the front.  Each step of the drain destroys
\* the one resource it received, which nobody holds afterwards, and the
\* drain ends on the empty channel.  After the stop signal a tick of the
\* maintenance loop creates nothing, the loop can return, and once it has
\* returned it never runs again.
C32_CloseSafe ==
    [][ /\ event'.op = "close_mark" => ~closed /\ ~stopChan /\ ~resClosed
        /\ event'.op = "close_chan" => ~resClosed /\ closed /\ stopChan
        /\ stopChan => stopChan' /\ closed'
        /\ resClosed => /\ resClosed'
                        /\ \E n \in 0..Len(resources) :
                              resources' = SubSeq(resources, n + 1,
                                                  Len(resources))
        /\ event'.op = "close_drain" =>
              /\ resClosed
              /\ event'.destroyed = {Head(resources)}
              /\ Head(resources) \notin Live(resources')
        /\ event'.op = "close_done" => resources = << >> /\ resClosed
        /\ closePc = "done" => closePc' = "done" /\ resources' = << >>
        /\ (stopChan /\ event'.op = "refill") =>
              /\ event'.made = 0 /\ event'.failed = 0
              /\ UNCHANGED <<resources, totalCount>>
        /\ (stopChan /\ maintPc = "running") =>
              ENABLED (MaintainStop /\ UNCHANGED otherVars)
        /\ maintPc = "stopped" => maintPc' = "stopped" /\ event'.op # "refill"
      ]_vars

\* A resource is returned to a pool that Close has drained and whose
\* maintenance loop has stopped: it is destroyed, not sent.
C32_Witness ==
    /\ closePc = "done"
    /\ maintPc = "stopped"
    /\ event.op = "put" /\ event.outcome = "destroyed"
    /\ resources = << >>

\* C33: what a Get hands to its caller without an error is a resource made
\* by the factory, never nil, and it is neither idle in the channel nor in
\* another caller's hands.
C33_GetReturnsRealResource ==
    \A c \in Clients :
        held[c] # None =>
            /\ held[c] # Nil
            /\ held[c] \notin Range(resources)
            /\ \A d \in Clients \ {c} : held[d] # held[c]

\* ---------------------------------------------------------------- stopping the server
\* C34: ConnectionContext.Close is called at most once for a session: the
\* Range of Stop and the deferred cleanup of the session's goroutine never
\* both call it.
C34_SessionClosedOnce ==
    \A k \in Conns : conn[k].closes <= 1

\* Stop, lines 127-132, beginning its Range on an assigned server, with a
\* note taken of the calls of handleWebSocket that are between the upgrade
\* and the Store at that moment.  The code keeps no such note: inflight is
\* there for the observer only and nothing reads it.
StopBeginObserved ==
    /\ srv.built = "ok"
    /\ srv.stop = "idle"
    /\ srv.server # "nil"
    /\ srv' = [srv EXCEPT !.stop = "range", !.visit = srv.active,
                          !.inflight = {k \in Conns :
                                          conn[k].pc \in {"upgraded", "leased"}}]
    /\ UNCHANGED <<conn, pm>>

\* The server as in NextWS, with the beginning of Stop's Range observed.
NextWSObserved ==
    \/ StopBeginObserved /\ UNCHANGED notWsVars
    \/ NextWS /\ ~(srv.stop = "idle" /\ srv'.stop = "range")

SpecWSObserved == InitPoolUnused /\ [][NextWSObserved]_vars

\* C35: once Stop has returned, no call of handleWebSocket that was in
\* progress when Stop started has left its session in activeConnections or
\* holding a leased ProviderSet.
C35_StopLeavesNoSession ==
    srv.stop = "done" =>
        \A k \in srv.inflight :
            /\ k \notin srv.active
            /\ ~conn[k].holds

\* C36: after a shutdown signal, once the shutdown goroutine of the
\* WebSocket service has called Stop, the listener is closed: ListenAndServe
\* can return and the service function with it.  Stop never returns having
\* done nothing while the service goes on running.
C36_StopClosesListener ==
    (proc.sig /\ ~Exited /\ proc.svc["ws"] = "running"
              /\ proc.stopper["ws"] # "wait") =>
        /\ proc.stopper["ws"] = "done"
        /\ ENABLED (ServiceReturn("ws") /\ UNCHANGED notMainVars)

\* ---------------------------------------------------------------- startup failure

\* C29: a listener that cannot be started shuts the process down: the
\* group context is cancelled and, once both service functions have
\* returned, main goes on to exit although no signal has arrived.
C29_ListenFailureExitsProcess ==
    (\E s \in Services : proc.svc[s] = "err") =>
        /\ proc.ctx
        /\ (AllReturned /\ ~Exited /\ ~proc.sig) =>
              ENABLED ((MainCancel \/ WaitDone \/ MainDone \/ MainTimeout)
                            /\ UNCHANGED notMainVars)


\* ====================================================================
\* The gosherpa speech recogniser (src/unnamed/part_006).  AddAudio writes
\* the frame to the WebSocket connection of the recogniser; a goroutine
\* reads the recogniser's text messages and hands them to the listener.
\* ====================================================================

\* Frames given to AddAudio.
MaxFrames == 6

\* AddAudio: conn.WriteMessage, its error dropped, then return nil.  A write
\* on a connection that has failed fails again.
AddAudio(writeOk) ==
    /\ Len(asr.frames) < MaxFrames
    /\ LET accepted == asr.conn = "open" /\ writeOk
       IN  asr' = [asr EXCEPT
              !.frames = Append(@, IF accepted THEN "written" ELSE "failed"),
              !.conn = IF accepted THEN "open" ELSE "failed",
              !.last = [op |-> "AddAudio", ret |-> "nil",
                        accepted |-> accepted, busy |-> asr.finished]]

\* Reset: return nil.
AsrReset ==
    /\ asr' = [asr EXCEPT !.last = [op |-> "Reset", ret |-> "nil",
                                    accepted |-> FALSE,
                                    busy |-> asr.finished]]

\* The reading goroutine: a text message of the recogniser is given to
\* listener.OnAsrResult, whose answer (the utterance is finished) is not
\* acted on.
ReadMessage(finished) ==
    /\ asr.conn = "open"
    /\ \E i \in 1..Len(asr.frames) : asr.frames[i] = "written"
    /\ asr' = [asr EXCEPT !.finished = finished]

NextAsr ==
    \/ (\E writeOk \in BOOLEAN : AddAudio(writeOk)) /\ UNCHANGED notAsrVars
    \/ AsrReset /\ UNCHANGED notAsrVars
    \/ (\E finished \in BOOLEAN : ReadMessage(finished))
            /\ UNCHANGED notAsrVars

SpecAsr == InitPoolUnused /\ [][NextAsr]_vars

\* C30: an AddAudio that reports success has had its frame accepted, and
\* was not made while the finalisation of an utterance was pending; after
\* Reset the recogniser is ready for a new utterance: no finished utterance
\* is pending and frames can be accepted.
C30_AddAudioFailsWhenNotAccepted ==
    /\ (asr.last.op = "AddAudio" /\ asr.last.ret = "nil") =>
            (asr.last.accepted /\ ~asr.last.busy)
    /\ asr.last.op = "Reset" => (~asr.finished /\ asr.conn = "open")


\* ====================================================================
\* OTA firmware discovery (src/unnamed/part_000: handleOtaPost and
\* versionLess).  Firmware files lie in ota_bin as <version>.bin; the POST
\* handler answers with the version and the URL of the file it ranks first.
\* A file is written here as its version, and a version as the sequence of
\* its components, the strings between the dots that strings.Split yields;
\* a component is the sequence of its decimal digits, so that "1.10.0" is
\* <<<<1>>, <<1, 0>>, <<0>>>>.
\* ====================================================================

\* Files the directory holds at most.
MaxBins == 2

\* The versions of the files that may be placed in ota_bin: 1.2, 1.9, 1.10
\* and each of them with a patch number 0 or 1.
Versions ==
    LET Minor == {<<2>>, <<9>>, <<1, 0>>}
    IN  {<< <<1>>, m >> : m \in Minor}
            \cup {<< <<1>>, m, p >> : m \in Minor, p \in {<<0>>, <<1>>}}

\* versionLess, lines 154-164: the first component in which a and b differ
\* decides, by Go's < on strings (byte by byte, a proper prefix being the
\* smaller); when none differs the version with fewer components is less.
versionLess(a, b) ==
    LET Less(x, y) ==
            \/ Len(x) < Len(y) /\ \A j \in 1..Len(x) : x[j] = y[j]
            \/ \E i \in 1..Len(x) :
                  /\ i <= Len(y)
                  /\ \A j \in 1..(i - 1) : x[j] = y[j]
                  /\ x[i] < y[i]
        n == IF Len(a) < Len(b) THEN Len(a) ELSE Len(b)
        differ == {i \in 1..n : a[i] # b[i]}
        first == CHOOSE i \in differ : \A j \in differ : i <= j
    IN  IF differ # {} THEN Less(a[first], b[first]) ELSE Len(a) < Len(b)

\* A firmware file is copied into ota_bin.
PlaceFirmware(v) ==
    /\ v \notin ota.bins
    /\ Cardinality(ota.bins) < MaxBins
    /\ ota' = [ota EXCEPT !.bins = @ \cup {v}]

\* handleOtaPost, lines 90-113: the version defaults to the one the client
\* sent, or 1.0.0; when the Glob finds files they are sorted in descending
\* order of versionLess and the first gives the version and the URL.  seen
\* keeps the files the Glob found.
HandleOtaPost(sent) ==
    LET version == IF sent = << >> THEN << <<1>>, <<0>>, <<0>> >> ELSE sent
        bins == ota.bins
        latest == CHOOSE v \in bins :
                      \A w \in bins \ {v} : versionLess(w, v)
    IN  ota' = [ota EXCEPT
            !.posted = TRUE,
            !.sent = sent,
            !.seen = bins,
            !.version = IF bins # {} THEN latest ELSE version,
            !.url = IF bins # {} THEN <<"/ota_bin/", latest>> ELSE << >>]

\* Files are placed, and clients that send no version, or the version they
\* run, ask for the latest firmware.
NextOta ==
    \/ (\E v \in Versions : PlaceFirmware(v)) /\ UNCHANGED notOtaVars
    \/ (\E sent \in {<< >>, << <<1>>, <<9>>, <<0>> >>, << <<2>>, <<0>> >>} :
            HandleOtaPost(sent)) /\ UNCHANGED notOtaVars

SpecOta == InitPoolUnused /\ [][NextOta]_vars

\* The number a component of decimal digits stands for.
RECURSIVE Number(_)
Number(c) == IF c = << >> THEN 0
                          ELSE 10 * Number(SubSeq(c, 1, Len(c) - 1)) + c[Len(c)]

\* a is semantically lower than b: the first component in which they differ
\* is the smaller number in a, or a is b without its last components.
SemanticLess(a, b) ==
    LET n == IF Len(a) < Len(b) THEN Len(a) ELSE Len(b)
        differ == {i \in 1..n : Number(a[i]) # Number(b[i])}
        first == CHOOSE i \in differ : \A j \in differ : i <= j
    IN  IF differ # {} THEN Number(a[first]) < Number(b[first])
                       ELSE Len(a) < Len(b)

\* C40: the OTA response names the latest firmware.  With no file in
\* ota_bin the URL is empty and the version is the one the client sent, or
\* 1.0.0 when it sent none.  Otherwise the version and the URL are those of
\* a file found, no file found is semantically higher, and on the files
\* found versionLess is the semantic order.
C40_LatestBySemanticVersion ==
    ota.posted =>
        /\ ota.seen = {} =>
              /\ ota.url = << >>
              /\ ota.version = IF ota.sent = << >>
                                 THEN << <<1>>, <<0>>, <<0>> >> ELSE ota.sent
        /\ ota.seen # {} =>
              /\ ota.version \in ota.seen
              /\ ota.url = <<"/ota_bin/", ota.version>>
              /\ \A w \in ota.seen : ~SemanticLess(ota.version, w)
        /\ \A a, b \in ota.seen : versionLess(a, b) <=> SemanticLess(a, b)

====
